---- MODULE Spec2Model ----
(***************************************************************************)
(* Verification model of the benchmarking harness                          *)
(* artcherenkov/itmo-advanced-runtimes-analysis.                           *)
(*                                                                         *)
(* Part 1: formatMetrics (benchmark-suites/metrics-interface.mjs, the ESM  *)
(*         version, and its CommonJS twin metrics-interface.js).           *)
(* Part 2: benchmark() of the runtime variants (node, deno,                *)
(*         deno/computational, bun).                                       *)
(*                                                                         *)
(* JavaScript values are modelled as records [t, n, d]:                    *)
(*   t = "number"     the rational n/d (d > 0, lowest terms)               *)
(*   t = "NaN"        the not-a-number value                               *)
(*   t = "undefined"  a missing property / out-of-range array element      *)
(*   t = "sqrt"       the positive irrational or rational sqrt(n/d), n > 0 *)
(*   t = "str:..."    a string (the text after "str:"; n carries a number  *)
(*                    embedded in the string, e.g. "512MB")                *)
(*   t = "isoTime"    the ISO-8601 string of clock reading n               *)
(* Durations are non-negative integers (nanoseconds) whose sums stay       *)
(* exactly representable, so IEEE-754 arithmetic on them is exact.         *)
(***************************************************************************)
EXTENDS Integers, Sequences, FiniteSets, TLC

\* ------------------------------------------------------------------------
\* Bounds of the model
\* ------------------------------------------------------------------------
MaxLen == 3
MaxDur == 3
MaxLong == 101
MaxCalls == 2
MaxClock == 2
MaxMem == 2
MaxIter == 2
MaxWarm == 1
MaxCallTime == 2
MaxChunks == 2
MaxReads == 2
MaxBlock == 19
MaxColdIter == 4
MaxWaitTicks == 2
MaxAsyncIter == 2
MaxWrkExit == 2
MaxTasks == 4
MaxArgValue == 2
MaxArgs == 2

\* ------------------------------------------------------------------------
\* JavaScript values and arithmetic
\* ------------------------------------------------------------------------
RECURSIVE Gcd(_, _)
Gcd(a, b) == IF b = 0 THEN a ELSE Gcd(b, a % b)

Abs(x) == IF x < 0 THEN -x ELSE x

Rat(n, d) ==
  LET g == Gcd(Abs(n), Abs(d))
      s == IF d < 0 THEN -1 ELSE 1
  IN [t |-> "number", n |-> (s * n) \div g, d |-> (s * d) \div g]

Num(n) == [t |-> "number", n |-> n, d |-> 1]
NaN == [t |-> "NaN", n |-> 0, d |-> 1]
Undefined == [t |-> "undefined", n |-> 0, d |-> 1]
Null == [t |-> "null", n |-> 0, d |-> 1]
Unknown == [t |-> "str:unknown", n |-> 0, d |-> 1]
NotAvailable == [t |-> "str:not available", n |-> 0, d |-> 1]
MB(n) == [t |-> "str:MB", n |-> n, d |-> 1]

IsNumber(x) == x.t = "number"

\* ToNumber as the binary minus applies it: numbers stay, undefined and
\* non-numeric strings become NaN, null becomes 0.
ToNumber(x) ==
  IF x.t = "number" THEN x
  ELSE IF x.t = "null" THEN Num(0)
  ELSE NaN

\* a - b
JsSub(a, b) ==
  LET x == ToNumber(a)
      y == ToNumber(b)
  IN IF IsNumber(x) /\ IsNumber(y)
       THEN LET l == (x.d \div Gcd(x.d, y.d)) * y.d
            IN Rat(x.n * (l \div x.d) - y.n * (l \div y.d), l)
       ELSE NaN

\* a + b on numbers
JsAdd(a, b) ==
  IF IsNumber(a) /\ IsNumber(b)
    THEN LET l == (a.d \div Gcd(a.d, b.d)) * b.d
         IN Rat(a.n * (l \div a.d) + b.n * (l \div b.d), l)
    ELSE NaN

\* a / b for a >= 0: 0/0 is NaN
JsDiv(a, b) ==
  IF IsNumber(a) /\ IsNumber(b)
    THEN IF b.n = 0
           THEN (IF a.n = 0 THEN NaN ELSE [t |-> "Infinity", n |-> 0, d |-> 1])
           ELSE Rat(a.n * b.d, a.d * b.n)
    ELSE NaN

\* Math.pow(x, 2)
JsSquare(x) == IF IsNumber(x) THEN [t |-> "number", n |-> x.n * x.n, d |-> x.d * x.d] ELSE NaN

\* Math.sqrt(x) for x >= 0: kept symbolic unless x = 0
JsSqrt(x) ==
  IF IsNumber(x)
    THEN (IF x.n = 0 THEN Num(0) ELSE [t |-> "sqrt", n |-> x.n, d |-> x.d])
    ELSE NaN

\* truthiness: 0, NaN, undefined, null are falsy; the strings used here are
\* all non-empty
Truthy(x) ==
  /\ x.t \notin {"NaN", "undefined", "null"}
  /\ ~(x.t = "number" /\ x.n = 0)

\* a || b
JsOr(a, b) == IF Truthy(a) THEN a ELSE b

\* arr[i] with a 0-based index: undefined outside the array
JsIndex(arr, i) == IF i >= 0 /\ i < Len(arr) THEN Num(arr[i + 1]) ELSE Undefined

\* new Date().toISOString()
ToISOString(now) == [t |-> "isoTime", n |-> now, d |-> 1]


\* ------------------------------------------------------------------------
\* formatMetrics: statistics
\* ------------------------------------------------------------------------

\* the comparator (a, b) => a - b
CompareNumbers(a, b) == a - b

\* one element placed into an ascending array, behind the elements that do
\* not compare greater (stable)
InsertSorted(sorted, x) ==
  LET k == Cardinality({i \in 1..Len(sorted) : CompareNumbers(sorted[i], x) <= 0})
  IN SubSeq(sorted, 1, k) \o <<x>> \o SubSeq(sorted, k + 1, Len(sorted))

\* acc holds the first Len(acc) elements of s in ascending order
RECURSIVE SortInto(_, _)
SortInto(s, acc) ==
  IF Len(acc) = Len(s) THEN acc ELSE SortInto(s, InsertSorted(acc, s[Len(acc) + 1]))

\* Array.prototype.sort with that comparator: the stable ascending
\* arrangement of the elements
SortAsc(s) == SortInto(s, << >>)

\* executionTimes.sort(...) applied to the caller's array itself
SortInPlace(arr) == [arr |-> SortAsc(arr), sorted |-> SortAsc(arr)]

\* the copy handed on without sorting it
UnsortedCopy(arr) == [arr |-> arr, sorted |-> arr]

\* const sorted = [...executionTimes].sort((a, b) => a - b):
\* arr is the caller's array after the statement, sorted the new array
SortedCopy(arr) == [arr |-> arr, sorted |-> SortAsc(arr)]

\* executionTimes.reduce((a, b) => a + b, 0)
\* (the additions are exact, so they are grouped in halves here)
RECURSIVE SumRange(_, _, _)
SumRange(arr, lo, hi) ==
  IF lo > hi THEN 0
  ELSE IF lo = hi THEN arr[lo]
  ELSE LET mid == (lo + hi) \div 2
       IN SumRange(arr, lo, mid) + SumRange(arr, mid + 1, hi)

SumOf(arr) == SumRange(arr, 1, Len(arr))

\* division by length - 1 (sample mean slip)
MeanOffByOne(arr) == JsDiv(Num(SumOf(arr)), Num(Len(arr) - 1))

\* const mean = executionTimes.reduce((a, b) => a + b, 0) / executionTimes.length
Mean(arr) == JsDiv(Num(SumOf(arr)), Num(Len(arr)))

\* executionTimes.reduce((sum, val) => sum + Math.pow(val - mean, 2), 0)
RECURSIVE SumSquaredDevFrom(_, _, _, _)
SumSquaredDevFrom(arr, mean, i, acc) ==
  IF ~IsNumber(acc) \/ i > Len(arr) THEN acc  \* NaN stays NaN
  ELSE SumSquaredDevFrom(arr, mean, i + 1, JsAdd(acc, JsSquare(JsSub(Num(arr[i]), mean))))

SumSquaredDev(arr, mean) == SumSquaredDevFrom(arr, mean, 1, Num(0))

\* sample standard deviation (divisor N - 1)
StdDevSample(arr, mean) ==
  JsSqrt(JsDiv(SumSquaredDev(arr, mean), Num(Len(arr) - 1)))

\* const stdDev = Math.sqrt(reduce(...) / executionTimes.length)
StdDev(arr, mean) ==
  JsSqrt(JsDiv(SumSquaredDev(arr, mean), Num(Len(arr))))

\* lower median index
MedianIndexLower(n) == (n - 1) \div 2

\* Math.floor(sorted.length / 2)
MedianIndex(n) == n \div 2

\* nearest-rank index ceil(n * pct / 100) - 1
PercentileIndexNearestRank(n, pct) == ((n * pct + 99) \div 100) - 1

\* Math.floor(sorted.length * 0.95), Math.floor(sorted.length * 0.99) with
\* pct = 95, 99 (the double product floors to the same integer for every
\* array length below 2,000,000)
PercentileIndex(n, pct) == (n * pct) \div 100

\* ------------------------------------------------------------------------
\* formatMetrics: the report
\* ------------------------------------------------------------------------

\* platformOS / isContainer detection of the ESM version
PlatformOS(ambient) ==
  IF ambient.hasProcess THEN ambient.platform
  ELSE IF ambient.hasDeno THEN ambient.platform
  ELSE IF ambient.hasBun THEN ambient.platform
  ELSE "unknown"

IsContainer(ambient) ==
  IF ambient.hasProcess \/ ambient.hasDeno \/ ambient.hasBun
    THEN ambient.container
    ELSE FALSE

\* diff: { rss: after.rss - before.rss, ... }
MemoryDiff(before, after) ==
  [rss |-> JsSub(after.rss, before.rss),
   heapTotal |-> JsSub(after.heapTotal, before.heapTotal),
   heapUsed |-> JsSub(after.heapUsed, before.heapUsed),
   external |-> JsSub(after.external, before.external)]

\* a report that leaks the wall clock into the CPU figures
formatMetricsClockLeak(runtime, version, experiment, executionTimes, memoryUsage, cpuUsage, ambient) ==
  LET mean == Mean(executionTimes)
      sc == SortedCopy(executionTimes)
      sorted == sc.sorted
      times == sc.arr
  IN [executionTimes |-> times,
      ret |->
       [runtime |-> runtime,
        version |-> version,
        experiment |-> experiment,
        timestamp |-> ToISOString(ambient.now),
        environment |->
          [os |-> PlatformOS(ambient),
           container |-> IsContainer(ambient),
           cpuCores |-> JsOr(cpuUsage.cpuCores, Unknown),
           memory |-> JsOr(memoryUsage.before.totalMemory, Unknown)],
        metrics |->
          [executionTimes |-> times,
           averageExecutionTime |-> mean,
           memoryUsage |->
             [before |-> memoryUsage.before,
              after |-> memoryUsage.after,
              diff |-> MemoryDiff(memoryUsage.before, memoryUsage.after)],
           cpuUsage |->
             [before |-> cpuUsage.before,
              after |-> cpuUsage.after,
              diffUser |-> JsSub(Num(ambient.now), cpuUsage.before.user),
              diffSystem |-> JsSub(cpuUsage.after.system, cpuUsage.before.system)]],
        statistics |->
          [mean |-> mean,
           median |-> JsIndex(sorted, MedianIndex(Len(sorted))),
           stdDev |-> StdDev(times, mean),
           p95 |-> JsIndex(sorted, PercentileIndex(Len(sorted), 95)),
           p99 |-> JsIndex(sorted, PercentileIndex(Len(sorted), 99))]]]

\* formatMetrics(runtime, version, experiment, executionTimes, memoryUsage,
\* cpuUsage); ambient carries what the function reads from its surroundings
\* (the clock, process / Deno globals).  ret is the returned object,
\* executionTimes the caller's array after the call.
formatMetrics(runtime, version, experiment, executionTimes, memoryUsage, cpuUsage, ambient) ==
  LET mean == Mean(executionTimes)
      sc == SortedCopy(executionTimes)
      sorted == sc.sorted
      times == sc.arr
  IN [executionTimes |-> times,
      ret |->
       [runtime |-> runtime,
        version |-> version,
        experiment |-> experiment,
        timestamp |-> ToISOString(ambient.now),
        environment |->
          [os |-> PlatformOS(ambient),
           container |-> IsContainer(ambient),
           cpuCores |-> JsOr(cpuUsage.cpuCores, Unknown),
           memory |-> JsOr(memoryUsage.before.totalMemory, Unknown)],
        metrics |->
          [executionTimes |-> times,
           averageExecutionTime |-> mean,
           memoryUsage |->
             [before |-> memoryUsage.before,
              after |-> memoryUsage.after,
              diff |-> MemoryDiff(memoryUsage.before, memoryUsage.after)],
           cpuUsage |->
             [before |-> cpuUsage.before,
              after |-> cpuUsage.after,
              diffUser |-> JsSub(cpuUsage.after.user, cpuUsage.before.user),
              diffSystem |-> JsSub(cpuUsage.after.system, cpuUsage.before.system)]],
        statistics |->
          [mean |-> mean,
           median |-> JsIndex(sorted, MedianIndex(Len(sorted))),
           stdDev |-> StdDev(times, mean),
           p95 |-> JsIndex(sorted, PercentileIndex(Len(sorted), 95)),
           p99 |-> JsIndex(sorted, PercentileIndex(Len(sorted), 99))]]]


\* ------------------------------------------------------------------------
\* Inputs of the model
\* ------------------------------------------------------------------------
ResourceFields == {"rss", "heapTotal", "heapUsed", "external"}
CpuFields == {"user", "system"}

\* a memory snapshot as getMemoryUsage() of Node.js / Bun returns it
BaseMem(v) ==
  [rss |-> Num(4 * v), heapTotal |-> Num(3 * v), heapUsed |-> Num(2 * v),
   external |-> Num(v), totalMemory |-> MB(8), freeMemory |-> MB(4),
   timestamp |-> Num(0)]

\* a CPU snapshot as getCpuUsage() of Node.js / Bun returns it
BaseCpu(v) ==
  [cpuCores |-> Num(4), user |-> Num(10 * v), system |-> Num(v), idle |-> Num(0),
   timestamp |-> Num(0)]

Degrade(snap, field, bad) == [snap EXCEPT ![field] = bad]

MemSnaps ==
  {BaseMem(v) : v \in 1..MaxMem}
    \cup {Degrade(BaseMem(1), f, b) : f \in ResourceFields, b \in {Unknown, Undefined}}

CpuSnaps ==
  {BaseCpu(v) : v \in 1..MaxMem}
    \cup {Degrade(BaseCpu(1), f, b) : f \in CpuFields, b \in {Unknown, Undefined}}

RECURSIVE SeqsUpTo(_, _)
SeqsUpTo(S, n) ==
  IF n = 0 THEN {<< >>}
  ELSE LET shorter == SeqsUpTo(S, n - 1)
       IN shorter \cup {Append(q, x) : q \in {r \in shorter : Len(r) = n - 1}, x \in S}

ShortTimes == SeqsUpTo(0..MaxDur, MaxLen)

ExampleTimes == {<<100, 200, 300, 400, 500>>, <<10>>, <<500, 100, 400, 200, 300>>}

\* long sample sequences: i * stride modulo n, in execution order
Ramp(n, stride) == [i \in 1..n |-> (i * stride) % n]

LongTimes == {Ramp(n, stride) : n \in {20, 21, MaxLong - 1, MaxLong}, stride \in {1, 7}}

DefaultMem == [before |-> BaseMem(1), after |-> BaseMem(2)]
DefaultCpu == [before |-> BaseCpu(1), after |-> BaseCpu(2), cpuCores |-> Num(4)]

Runtimes == {"node", "deno", "bun"}

\* what formatMetrics reads from its surroundings in each runtime
Ambient(runtime, now) ==
  [now |-> now,
   hasProcess |-> runtime \in {"node", "bun"},
   hasDeno |-> runtime = "deno",
   hasBun |-> runtime = "bun",
   platform |-> "linux",
   container |-> TRUE]

\* ------------------------------------------------------------------------
\* State
\* ------------------------------------------------------------------------
VARIABLES
  clock,      \* the wall clock (Date.now(), hrtime, performance.now())
  fmTimes,    \* the array a direct caller of formatMetrics passes as executionTimes
  fmGiven,    \* its content when the caller built it
  fmArgs,     \* the other arguments of the direct calls
  fmReports,  \* the reports the direct calls returned, in call order
  \* benchmark(fn, args, options)
  variant,    \* which utils/metrics module runs: node, deno, denoComp, bun
  options,    \* iterations, warmupIterations, detailedMetrics, outputPath
  pc,         \* position in benchmark()
  idx,        \* the loop counter i of the loop in progress
  heapLevel,  \* what the runtime's memory API currently reports
  missing,    \* the field the runtime's memory API leaves out ("none": no field)
  cpuBefore, memoryBefore, cpuAfter, memoryAfter,
  memoryBeforeIteration, startTime,
  executionTimes, detailedIterationMetrics,
  metrics,    \* the report object
  returned,   \* << >> or <<the object benchmark() returned>>
  fsDir,      \* TRUE when the directory of outputPath exists
  fsFile,     \* << >> or <<the text written to outputPath>>
  saveLog,    \* file-system calls and console lines of the save, in order
  readerSaw,  \* what another process found at outputPath, one entry per read
  events      \* history of workload calls and snapshots, in order

fmVars == <<fmTimes, fmGiven, fmArgs, fmReports>>
bmLocals == <<cpuBefore, memoryBefore, cpuAfter, memoryAfter, memoryBeforeIteration,
              startTime, executionTimes, detailedIterationMetrics, metrics, returned>>
bmEnv == <<heapLevel, fsDir, fsFile, saveLog, readerSaw>>
bmVars == <<variant, options, pc, idx, missing, bmLocals, bmEnv, events>>
coreVars == <<clock, fmVars, bmVars>>

\* the HTTP servers (node/http, deno/http, bun/http index.js)
VARIABLES
  reqUrl,     \* the URL a client requests, as a sequence of its parts
  responses   \* what each server has answered to it

httpVars == <<reqUrl, responses>>

\* no request has been made
HttpIdle == reqUrl = << >> /\ responses = << >>

\* the cold-start script (bun/cold-start/cold_start_benchmark.sh)
VARIABLES
  csPc,               \* position in the script: loop, waitReady, waitRequest, exited
  csClock,            \* the clock (time.time() and Date.now()), in polling intervals
  ITERATIONS,
  csIter,             \* the loop variable i of main
  failed_iterations,
  start_time,         \* T0
  ready_time,         \* T1: << >> while empty, else <<the time stamp>>
  request_time,       \* T2
  wait_seconds,       \* in polling intervals (sleep 0.1)
  STARTUP_TIMES, FIRST_REQUEST_TIMES, TOTAL_TIMES,
  containers,         \* the containers that exist, by iteration number
  resultsFile,        \* the "iterations" array of RESULTS_FILE
  exitCode,           \* << >> while the script runs, else <<its exit status>>
  csHistory           \* history: per iteration run, its outcome and clock readings

csVars == <<csPc, csClock, ITERATIONS, csIter, failed_iterations, start_time, ready_time,
            request_time, wait_seconds, STARTUP_TIMES, FIRST_REQUEST_TIMES, TOTAL_TIMES,
            containers, resultsFile, exitCode, csHistory>>

\* the script has not been started
ColdIdle ==
  /\ csPc = "idle" /\ csClock = 0 /\ ITERATIONS = 0 /\ csIter = 0
  /\ failed_iterations = 0 /\ start_time = 0 /\ ready_time = << >> /\ request_time = 0
  /\ wait_seconds = 0
  /\ STARTUP_TIMES = << >> /\ FIRST_REQUEST_TIMES = << >> /\ TOTAL_TIMES = << >>
  /\ containers = {} /\ resultsFile = << >> /\ exitCode = << >> /\ csHistory = << >>

\* the async benchmark script (scripts/run_async_benchmarks.sh)
VARIABLES
  abPc, RUNTIME, abIterations, abService, abProbe, abProbed, abIter, SUCCESS,
  WRK_EXIT_CODE, abResultsFile, abWrkRuns, abExit

abVars == <<abPc, RUNTIME, abIterations, abService, abProbe, abProbed, abIter, SUCCESS,
            WRK_EXIT_CODE, abResultsFile, abWrkRuns, abExit>>

AsyncIdle ==
  /\ abPc = "idle" /\ RUNTIME = "" /\ abIterations = 0 /\ abService = "none"
  /\ abProbe = 0 /\ abProbed = FALSE /\ abIter = 0 /\ SUCCESS = "" /\ WRK_EXIT_CODE = 0
  /\ abResultsFile = << >> /\ abWrkRuns = 0 /\ abExit = << >>

\* the docker-compose test runner (run-tests.sh)
VARIABLES rnPc, RUN_ALL, rnRuntime, rnTest, rnHelp, SERVICES, rnStarted, failed_tests, rnExit

rnVars == <<rnPc, RUN_ALL, rnRuntime, rnTest, rnHelp, SERVICES, rnStarted, failed_tests, rnExit>>

RunnerIdle ==
  /\ rnPc = "idle" /\ RUN_ALL = FALSE /\ rnRuntime = "" /\ rnTest = "" /\ rnHelp = FALSE
  /\ SERVICES = << >> /\ rnStarted = 0 /\ failed_tests = 0 /\ rnExit = << >>

\* the async server (async/index.js of each runtime)
VARIABLES asPc, asServer, asTarget, PARALLEL_TASKS, tasks, asResponse

asVars == <<asPc, asServer, asTarget, PARALLEL_TASKS, tasks, asResponse>>

ServerIdle ==
  /\ asPc = "idle" /\ asServer = "" /\ asTarget = << >> /\ PARALLEL_TASKS = 0
  /\ tasks = << >> /\ asResponse = << >>

\* the deoptimization wrappers (utils/deoptimize)
VARIABLES dzPc, dzModule, fn, args, fnCalls, dzResult

dzVars == <<dzPc, dzModule, fn, args, fnCalls, dzResult>>

DeoptIdle ==
  /\ dzPc = "idle" /\ dzModule = "" /\ fn = "" /\ args = << >> /\ fnCalls = << >>
  /\ dzResult = << >>

\* all variables beyond benchmark() and formatMetrics, and what each part
\* of the model leaves alone
extVars == <<httpVars, csVars, abVars, rnVars, asVars, dzVars>>
httpFrame == <<coreVars, csVars, abVars, rnVars, asVars, dzVars>>
coldFrame == <<coreVars, httpVars, abVars, rnVars, asVars, dzVars>>
abFrame == <<coreVars, httpVars, csVars, rnVars, asVars, dzVars>>
rnFrame == <<coreVars, httpVars, csVars, abVars, asVars, dzVars>>
asFrame == <<coreVars, httpVars, csVars, abVars, rnVars, dzVars>>
dzFrame == <<coreVars, httpVars, csVars, abVars, rnVars, asVars>>
ExtIdle == HttpIdle /\ ColdIdle /\ AsyncIdle /\ RunnerIdle /\ ServerIdle /\ DeoptIdle
vars == <<coreVars, extVars>>

\* ------------------------------------------------------------------------
\* benchmark(): what the runtimes report
\* ------------------------------------------------------------------------
Variants == {"node", "deno", "denoComp", "bun"}

\* the runtime identifier each module passes to formatMetrics
RuntimeName(v) == IF v = "denoComp" THEN "deno" ELSE v

\* the version string each module passes: process.version, Deno.version.deno,
\* Bun.version
RuntimeVersion(v) ==
  IF v = "node" THEN "process.version"
  ELSE IF v = "bun" THEN "Bun.version"
  ELSE "Deno.version.deno"

NsPerMs == 1000000
StabilizeMs == 20

\* Date.now(): whole milliseconds of the clock (kept in nanoseconds)
DateNow(now) == now \div NsPerMs

\* process.memoryUsage() / Deno.memoryUsage(); miss is the field the
\* runtime does not provide
RawMemory(level, miss) ==
  [rss |-> IF miss = "rss" THEN Undefined ELSE Num(4 * level),
   heapTotal |-> IF miss = "heapTotal" THEN Undefined ELSE Num(3 * level),
   heapUsed |-> IF miss = "heapUsed" THEN Undefined ELSE Num(2 * level),
   external |-> IF miss = "external" THEN Undefined ELSE Num(level)]

getMemoryUsage(v, level, miss, now) ==
  LET memoryInfo == RawMemory(level, miss)
  IN [rss |-> memoryInfo.rss,
      heapTotal |-> memoryInfo.heapTotal,
      heapUsed |-> memoryInfo.heapUsed,
      external |-> IF v = "deno" THEN JsOr(memoryInfo.external, Num(0))
                   ELSE memoryInfo.external,
      totalMemory |-> IF v = "deno" THEN Unknown
                      ELSE IF v = "denoComp" THEN NotAvailable
                      ELSE MB(8),
      freeMemory |-> IF v = "deno" THEN Unknown
                     ELSE IF v = "denoComp" THEN NotAvailable
                     ELSE MB(4),
      timestamp |-> Num(DateNow(now))]

getCpuUsage(v, now) ==
  [cpuCores |-> IF v = "denoComp" THEN JsOr(Num(4), Num(1)) ELSE Num(4),
   user |-> IF v = "denoComp" THEN Num(0)
            ELSE IF v = "deno" THEN Rat(now, NsPerMs)
            ELSE Num(2 * DateNow(now)),
   system |-> IF v \in {"deno", "denoComp"} THEN Num(0) ELSE Num(DateNow(now)),
   idle |-> Num(0),
   timestamp |-> Num(DateNow(now))]

\* the timer reading of each module and the duration computed from two
\* readings, in nanoseconds
TimerRead(v, now) ==
  IF v = "deno" THEN Rat(now, NsPerMs)                    \* performance.now()
  ELSE Num(now)    \* hrtime.bigint(), Bun.nanoseconds(), performance.now() * 1_000_000

ExecutionTime(v, start, end) ==
  IF v = "deno"
    THEN LET ms == JsSub(end, start) IN Rat(ms.n * NsPerMs, ms.d)
    ELSE JsSub(end, start)

\* the diff of one iteration's memory snapshots, as each module writes it
IterationDiff(v, before, after) ==
  [rss |-> JsSub(after.rss, before.rss),
   heapTotal |-> IF v = "denoComp"
                   THEN JsSub(JsOr(after.heapTotal, Num(0)), JsOr(before.heapTotal, Num(0)))
                   ELSE JsSub(after.heapTotal, before.heapTotal),
   heapUsed |-> IF v = "denoComp"
                  THEN JsSub(JsOr(after.heapUsed, Num(0)), JsOr(before.heapUsed, Num(0)))
                  ELSE JsSub(after.heapUsed, before.heapUsed),
   external |-> IF v \in {"denoComp", "deno"}
                  THEN JsSub(JsOr(after.external, Num(0)), JsOr(before.external, Num(0)))
                  ELSE JsSub(after.external, before.external)]

\* an entry numbered with the raw loop counter
IterationEntryZeroBased(v, i, executionTime, before, after) ==
  [iteration |-> i,
   executionTime |-> executionTime,
   memory |-> [before |-> before, after |-> after,
               diff |-> IterationDiff(v, before, after)]]

\* detailedIterationMetrics.push({ iteration: i + 1, executionTime,
\*   memory: { before, after, diff } })
IterationEntry(v, i, executionTime, before, after) ==
  [iteration |-> i + 1,
   executionTime |-> executionTime,
   memory |-> [before |-> before, after |-> after,
               diff |-> IterationDiff(v, before, after)]]

\* JSON.stringify of a number-valued property: NaN and Infinity are written
\* as null, an undefined property is left out
JsonValue(x) ==
  IF x.t \in {"NaN", "Infinity"} THEN Null
  ELSE IF x.t = "undefined" THEN [t |-> "omitted", n |-> 0, d |-> 1]
  ELSE x

\* JSON.stringify(metrics, null, 2)
JsonStringify(m) ==
  [m EXCEPT !.statistics = [k \in DOMAIN m.statistics |-> JsonValue(m.statistics[k])],
            !.metrics.averageExecutionTime = JsonValue(@),
            !.metrics.memoryUsage.diff = [k \in DOMAIN @ |-> JsonValue(@[k])],
            !.metrics.cpuUsage.diffUser = JsonValue(@),
            !.metrics.cpuUsage.diffSystem = JsonValue(@)]

\* ------------------------------------------------------------------------
\* benchmark(): saving the report
\* ------------------------------------------------------------------------

\* the text writeFileSync / writeTextFileSync has put into the file so far:
\* the first `chunks` of the MaxChunks pieces of the document
FileText(doc, chunks) == [doc |-> doc, chunks |-> chunks]

\* the complete text of JSON.stringify(m, null, 2)
WholeText(m) == FileText(JsonStringify(m), MaxChunks)

\* a save whose catch block passes the error on
SaveNodeStyleRethrow(m, dir, file, mk, wr) ==
  LET log1 == IF dir THEN <<"existsSync">> ELSE <<"existsSync", "mkdir:" \o mk>>
  IN IF ~dir /\ mk = "fail"
       THEN [dir |-> dir, file |-> file, log |-> log1 \o <<"console.error">>,
             threw |-> TRUE]
     ELSE IF wr = "ok"
       THEN [dir |-> TRUE, file |-> <<WholeText(m)>>,
             log |-> log1 \o <<"write:ok", "console.log">>, threw |-> FALSE]
     ELSE [dir |-> TRUE, file |-> file, log |-> log1 \o <<"write:fail", "console.error">>,
           threw |-> TRUE]

\* the try block of saveResults for Node.js / Bun and of the Bun module:
\* existsSync, mkdirSync, writeFileSync.  mk and wr are what mkdirSync and
\* writeFileSync do when called ("ok" or "fail").  The catch block logs the
\* error and the function completes normally: threw is what the caller of
\* the save sees.
SaveNodeStyle(m, dir, file, mk, wr) ==
  LET log1 == IF dir THEN <<"existsSync">> ELSE <<"existsSync", "mkdir:" \o mk>>
  IN IF ~dir /\ mk = "fail"
       THEN [dir |-> dir, file |-> file, log |-> log1 \o <<"console.error">>,
             threw |-> FALSE]
     ELSE IF wr = "ok"
       THEN [dir |-> TRUE, file |-> <<WholeText(m)>>,
             log |-> log1 \o <<"write:ok", "console.log">>, threw |-> FALSE]
     ELSE [dir |-> TRUE, file |-> file, log |-> log1 \o <<"write:fail", "console.error">>,
           threw |-> FALSE]

\* the Deno branch of saveResults: mkdirSync(recursive), writeTextFileSync
SaveDenoBranch(m, dir, file, mk, wr) ==
  IF mk = "fail"
    THEN [dir |-> dir, file |-> file, log |-> <<"mkdir:fail", "console.error">>,
          threw |-> FALSE]
  ELSE IF wr = "ok"
    THEN [dir |-> TRUE, file |-> <<WholeText(m)>>,
          log |-> <<"mkdir:ok", "write:ok", "console.log">>, threw |-> FALSE]
  ELSE [dir |-> TRUE, file |-> file, log |-> <<"mkdir:ok", "write:fail", "console.error">>,
        threw |-> FALSE]

\* the save of deno/utils/metrics.js: write, and after a failure mkdir and
\* write again.  A write into a missing directory fails.
SaveDenoModule(m, dir, file, wr1, mk, wr2) ==
  IF dir /\ wr1 = "ok"
    THEN [dir |-> dir, file |-> <<WholeText(m)>>, log |-> <<"write:ok", "console.log">>,
          threw |-> FALSE]
  ELSE IF mk = "fail"
    THEN [dir |-> dir, file |-> file,
          log |-> <<"write:fail", "console.error", "mkdir:fail", "console.error">>,
          threw |-> FALSE]
  ELSE IF wr2 = "ok"
    THEN [dir |-> TRUE, file |-> <<WholeText(m)>>,
          log |-> <<"write:fail", "console.error", "mkdir:ok", "write:ok", "console.log">>,
          threw |-> FALSE]
  ELSE [dir |-> TRUE, file |-> file,
        log |-> <<"write:fail", "console.error", "mkdir:ok", "write:fail", "console.error">>,
        threw |-> FALSE]

\* the save step of each module's benchmark()
SaveStep(v, opts, m, dir, file, wr1, mk, wr2) ==
  IF v = "deno" THEN SaveDenoModule(m, dir, file, wr1, mk, wr2)
  ELSE IF v = "bun" THEN SaveNodeStyle(m, dir, file, mk, wr1)
  ELSE IF ~opts.outputPath
    THEN [dir |-> dir, file |-> file, log |-> << >>, threw |-> FALSE]
  ELSE IF v = "denoComp" THEN SaveDenoBranch(m, dir, file, mk, wr1)
  ELSE SaveNodeStyle(m, dir, file, mk, wr1)

\* ------------------------------------------------------------------------
\* benchmark(): the run
\* ------------------------------------------------------------------------
Event(kind, now, mem, cpu) == [kind |-> kind, at |-> now, mem |-> mem, cpu |-> cpu]

OptionSets(v) ==
  [iterations : 0..MaxIter, warmupIterations : 0..MaxWarm, detailedMetrics : BOOLEAN,
   outputPath : IF v \in {"deno", "bun"} THEN {TRUE} ELSE BOOLEAN]

BmIdle ==
  /\ idx = 0
  /\ heapLevel = 1
  /\ cpuBefore = Null /\ memoryBefore = Null /\ cpuAfter = Null /\ memoryAfter = Null
  /\ memoryBeforeIteration = Null /\ startTime = Null
  /\ executionTimes = << >> /\ detailedIterationMetrics = << >>
  /\ metrics = Null
  /\ returned = << >>
  /\ fsFile = << >>
  /\ saveLog = << >>
  /\ readerSaw = << >>
  /\ events = << >>

Init ==
  /\ clock = 0
  /\ fmTimes = << >> /\ fmGiven = << >> /\ fmReports = << >>
  /\ fmArgs = Null
  /\ variant \in Variants
  /\ options \in OptionSets(variant)
  /\ missing \in {"none", "heapTotal"}
  /\ fsDir \in BOOLEAN
  /\ pc = "warmup"
  /\ BmIdle
  /\ ExtIdle

\* a loop that makes one more pass
LoopContinuesInclusive(i, opts) == i <= opts.iterations

\* for (let i = 0; i < iterations; i++)
LoopContinues(i, opts) == i < opts.iterations

\* for (i < warmupIterations) fn(...args): the workload runs and allocates
Warmup ==
  /\ pc = "warmup"
  /\ idx < options.warmupIterations
  /\ heapLevel' = heapLevel + 1
  /\ clock' = clock + 1
  /\ events' = Append(events, Event("warmup", clock + 1, Null, Null))
  /\ idx' = idx + 1
  /\ UNCHANGED <<fmVars, variant, options, pc, missing, bmLocals, fsDir, fsFile, saveLog,
                 readerSaw>>
  /\ UNCHANGED extVars

\* const cpuBefore = getCpuUsage(); const memoryBefore = getMemoryUsage();
\* const executionTimes = []; const detailedIterationMetrics = []
TakeBefore ==
  /\ pc = "warmup"
  /\ idx >= options.warmupIterations
  /\ cpuBefore' = getCpuUsage(variant, clock)
  /\ memoryBefore' = getMemoryUsage(variant, heapLevel, missing, clock)
  /\ executionTimes' = << >>
  /\ detailedIterationMetrics' = << >>
  /\ idx' = 0
  /\ pc' = "loop"
  /\ events' = Append(events, Event("before", clock, memoryBefore', cpuBefore'))
  /\ UNCHANGED <<clock, fmVars, variant, options, missing, cpuAfter, memoryAfter,
                 memoryBeforeIteration, startTime, metrics, returned, bmEnv>>
  /\ UNCHANGED extVars

\* stabilizeSystem(); memoryBeforeIteration; startTime; fn(...args) is entered
StartIteration ==
  /\ pc = "loop"
  /\ LoopContinues(idx, options)
  /\ clock' = clock + StabilizeMs * NsPerMs
  /\ memoryBeforeIteration' =
       IF options.detailedMetrics
         THEN getMemoryUsage(variant, heapLevel, missing, clock')
         ELSE Null
  /\ startTime' = TimerRead(variant, clock')
  /\ pc' = "fn"
  /\ events' = Append(events, Event("iterationStart", clock', memoryBeforeIteration', Null))
  /\ UNCHANGED <<fmVars, variant, options, idx, missing, cpuBefore, memoryBefore, cpuAfter,
                 memoryAfter, executionTimes, detailedIterationMetrics, metrics, returned,
                 bmEnv>>
  /\ UNCHANGED extVars

\* fn(...args) returns; endTime; memoryAfterIteration; executionTimes.push;
\* detailedIterationMetrics.push; i++
FinishIteration ==
  /\ pc = "fn"
  /\ \E took \in 1..MaxCallTime, grow \in {0, 1} :
       LET endTime == TimerRead(variant, clock + took)
           memoryAfterIteration ==
             IF options.detailedMetrics
               THEN getMemoryUsage(variant, heapLevel + grow, missing, clock + took)
               ELSE Null
           executionTime == ExecutionTime(variant, startTime, endTime)
       IN /\ clock' = clock + took
          /\ heapLevel' = heapLevel + grow
          /\ executionTimes' = Append(executionTimes, executionTime.n)
          /\ detailedIterationMetrics' =
               IF options.detailedMetrics
                 THEN Append(detailedIterationMetrics,
                        IterationEntry(variant, idx, executionTime,
                                       memoryBeforeIteration, memoryAfterIteration))
                 ELSE detailedIterationMetrics
          /\ events' = Append(events, Event("iterationEnd", clock + took,
                                            memoryAfterIteration, Null))
  /\ idx' = idx + 1
  /\ pc' = "loop"
  /\ UNCHANGED <<fmVars, variant, options, missing, cpuBefore, memoryBefore, cpuAfter,
                 memoryAfter, memoryBeforeIteration, startTime, metrics, returned,
                 fsDir, fsFile, saveLog, readerSaw>>
  /\ UNCHANGED extVars

\* const cpuAfter = getCpuUsage(); const memoryAfter = getMemoryUsage()
TakeAfter ==
  /\ pc = "loop"
  /\ ~LoopContinues(idx, options)
  /\ cpuAfter' = getCpuUsage(variant, clock)
  /\ memoryAfter' = getMemoryUsage(variant, heapLevel, missing, clock)
  /\ pc' = "format"
  /\ events' = Append(events, Event("after", clock, memoryAfter', cpuAfter'))
  /\ UNCHANGED <<clock, fmVars, variant, options, idx, missing, cpuBefore, memoryBefore,
                 memoryBeforeIteration, startTime, executionTimes,
                 detailedIterationMetrics, metrics, returned, bmEnv>>
  /\ UNCHANGED extVars

\* one snapshot handed over as both sides of the pair
WholeRunMemoryAfterOnly(mBefore, mAfter) == [before |-> mAfter, after |-> mAfter]

\* { before: memoryBefore, after: memoryAfter }
WholeRunMemory(mBefore, mAfter) == [before |-> mBefore, after |-> mAfter]

\* const metrics = formatMetrics(runtime, version, experiment, executionTimes,
\*   { before: memoryBefore, after: memoryAfter },
\*   { before: cpuBefore, after: cpuAfter, cpuCores: cpuBefore.cpuCores })
Format ==
  /\ pc = "format"
  /\ LET r == formatMetrics(RuntimeName(variant), RuntimeVersion(variant), "exp",
                            executionTimes,
                            WholeRunMemory(memoryBefore, memoryAfter),
                            [before |-> cpuBefore, after |-> cpuAfter,
                             cpuCores |-> cpuBefore.cpuCores],
                            Ambient(RuntimeName(variant), DateNow(clock)))
     IN /\ metrics' = r.ret
        /\ executionTimes' = r.executionTimes
  /\ pc' = "attach"
  /\ events' = Append(events, Event("format", clock, Null, Null))
  /\ UNCHANGED <<clock, fmVars, variant, options, idx, missing, cpuBefore, memoryBefore,
                 cpuAfter, memoryAfter, memoryBeforeIteration, startTime,
                 detailedIterationMetrics, returned, bmEnv>>
  /\ UNCHANGED extVars

\* the array attached under another name
WithDetailedRenamed(m, detailed, entries) ==
  IF detailed THEN [iterationMetrics |-> entries] @@ m ELSE m

\* if (detailedMetrics) { metrics.detailedIterationMetrics = detailedIterationMetrics }
WithDetailed(m, detailed, entries) ==
  IF detailed THEN [detailedIterationMetrics |-> entries] @@ m ELSE m

\* the report after the if statement behind the formatMetrics call
AttachDetailed ==
  /\ pc = "attach"
  /\ metrics' = WithDetailed(metrics, options.detailedMetrics, detailedIterationMetrics)
  /\ pc' = "save"
  /\ UNCHANGED <<clock, fmVars, variant, options, idx, missing, cpuBefore, memoryBefore,
                 cpuAfter, memoryAfter, memoryBeforeIteration, startTime, executionTimes,
                 detailedIterationMetrics, returned, bmEnv, events>>
  /\ UNCHANGED extVars

\* the save of the report; the file system decides how each call ends.  An
\* error that leaves the save rejects benchmark()'s promise: no return.
Save ==
  /\ pc = "save"
  /\ \E wr1 \in {"ok", "fail"}, mk \in {"ok", "fail"}, wr2 \in {"ok", "fail"} :
       LET r == SaveStep(variant, options, metrics, fsDir, fsFile, wr1, mk, wr2)
       IN /\ fsDir' = r.dir
          /\ fsFile' = r.file
          /\ saveLog' = r.log
          /\ pc' = IF r.threw THEN "aborted" ELSE "return"
  /\ UNCHANGED <<clock, fmVars, variant, options, idx, missing, bmLocals, heapLevel,
                 readerSaw, events>>
  /\ UNCHANGED extVars

\* return metrics
Return ==
  /\ pc = "return"
  /\ returned' = <<metrics>>
  /\ pc' = "done"
  /\ UNCHANGED <<clock, fmVars, variant, options, idx, missing, cpuBefore, memoryBefore,
                 cpuAfter, memoryAfter, memoryBeforeIteration, startTime, executionTimes,
                 detailedIterationMetrics, metrics, bmEnv, events>>
  /\ UNCHANGED extVars

Next ==
  \/ Warmup
  \/ TakeBefore
  \/ StartIteration
  \/ FinishIteration
  \/ TakeAfter
  \/ Format
  \/ AttachDetailed
  \/ Save
  \/ Return

Spec == Init /\ [][Next]_vars

\* ------------------------------------------------------------------------
\* Direct calls of formatMetrics
\* ------------------------------------------------------------------------
FmArgs(runtime, mem, cpu) ==
  [runtime |-> runtime, version |-> "v1", experiment |-> "exp", mem |-> mem, cpu |-> cpu]

InitFM ==
  /\ clock = 0
  /\ fmReports = << >>
  /\ \/ /\ fmTimes \in ShortTimes \cup ExampleTimes
        /\ \E rt \in Runtimes : fmArgs = FmArgs(rt, DefaultMem, DefaultCpu)
     \/ /\ fmTimes \in LongTimes
        /\ fmArgs = FmArgs("node", DefaultMem, DefaultCpu)
     \/ /\ fmTimes = <<10>>
        /\ \E b \in MemSnaps, a \in MemSnaps :
             fmArgs = FmArgs("node", [before |-> b, after |-> a], DefaultCpu)
     \/ /\ fmTimes = <<10>>
        /\ \E b \in CpuSnaps, a \in CpuSnaps :
             fmArgs = FmArgs("node", DefaultMem,
                             [before |-> b, after |-> a, cpuCores |-> b.cpuCores])
  /\ fmGiven = fmTimes
  /\ variant = "node"
  /\ options = [iterations |-> 0, warmupIterations |-> 0, detailedMetrics |-> FALSE,
                outputPath |-> FALSE]
  /\ missing = "none"
  /\ fsDir = FALSE
  /\ pc = "idle"
  /\ BmIdle
  /\ ExtIdle

\* benchmark() and formatMetrics at rest
CoreIdle ==
  /\ clock = 0
  /\ fmTimes = << >> /\ fmGiven = << >> /\ fmReports = << >>
  /\ fmArgs = Null
  /\ variant = "node"
  /\ options = [iterations |-> 0, warmupIterations |-> 0, detailedMetrics |-> FALSE,
                outputPath |-> FALSE]
  /\ missing = "none"
  /\ fsDir = FALSE
  /\ pc = "idle"
  /\ BmIdle

\* every part of the model but one at rest
HttpOthersIdle == CoreIdle /\ ColdIdle /\ AsyncIdle /\ RunnerIdle /\ ServerIdle /\ DeoptIdle
ColdOthersIdle == CoreIdle /\ HttpIdle /\ AsyncIdle /\ RunnerIdle /\ ServerIdle /\ DeoptIdle
AbOthersIdle == CoreIdle /\ HttpIdle /\ ColdIdle /\ RunnerIdle /\ ServerIdle /\ DeoptIdle
RnOthersIdle == CoreIdle /\ HttpIdle /\ ColdIdle /\ AsyncIdle /\ ServerIdle /\ DeoptIdle
AsOthersIdle == CoreIdle /\ HttpIdle /\ ColdIdle /\ AsyncIdle /\ RunnerIdle /\ DeoptIdle
DzOthersIdle == CoreIdle /\ HttpIdle /\ ColdIdle /\ AsyncIdle /\ RunnerIdle /\ ServerIdle
\* end of the rest states

\* one direct call formatMetrics(runtime, version, experiment, fmTimes, mem, cpu)
FmCall ==
  /\ Len(fmReports) < MaxCalls
  /\ LET r == formatMetrics(fmArgs.runtime, fmArgs.version, fmArgs.experiment,
                            fmTimes, fmArgs.mem, fmArgs.cpu,
                            Ambient(fmArgs.runtime, clock))
     IN /\ fmReports' = Append(fmReports, r.ret)
        /\ fmTimes' = r.executionTimes
  /\ UNCHANGED <<clock, fmGiven, fmArgs, bmVars>>
  /\ UNCHANGED extVars

\* time passes
Tick ==
  /\ clock < MaxClock
  /\ clock' = clock + 1
  /\ UNCHANGED <<fmVars, bmVars>>
  /\ UNCHANGED extVars

NextFM == FmCall \/ Tick

SpecFM == InitFM /\ [][NextFM]_vars


\* ------------------------------------------------------------------------
\* Direct calls of formatMetrics on a durations array that grows between
\* the calls
\* ------------------------------------------------------------------------

\* the smallest and the largest sample of an array
MinOf(s) == CHOOSE x \in {s[i] : i \in DOMAIN s} : \A i \in DOMAIN s : x <= s[i]
MaxOf(s) == CHOOSE x \in {s[i] : i \in DOMAIN s} : \A i \in DOMAIN s : x >= s[i]
\* the arrays the caller starts from: one or two samples, and the long ramps
GrowStarts ==
  {s \in SeqsUpTo(0..MaxDur, 2) : Len(s) >= 1} \cup LongTimes

InitGrow ==
  /\ clock = 0
  /\ fmReports = << >>
  /\ fmTimes \in GrowStarts
  /\ fmArgs = FmArgs("node", DefaultMem, DefaultCpu)
  /\ fmGiven = fmTimes
  /\ variant = "node"
  /\ options = [iterations |-> 0, warmupIterations |-> 0, detailedMetrics |-> FALSE,
                outputPath |-> FALSE]
  /\ missing = "none"
  /\ fsDir = FALSE
  /\ pc = "idle"
  /\ BmIdle
  /\ ExtIdle

\* the caller pushes k further samples of a value that occurs in the array it
\* started from (its smallest or its largest), after a report on the array
\* as it stands
AppendSamples ==
  /\ fmReports # << >>
  /\ fmReports[Len(fmReports)].metrics.executionTimes = fmTimes
  /\ \E v \in {MinOf(fmGiven), MaxOf(fmGiven)}, k \in {1, MaxBlock} :
       fmTimes' = fmTimes \o [j \in 1..k |-> v]
  /\ UNCHANGED <<clock, fmGiven, fmArgs, fmReports, bmVars>>
  /\ UNCHANGED extVars

NextGrow == FmCall \/ AppendSamples

SpecGrow == InitGrow /\ [][NextGrow]_vars

\* ------------------------------------------------------------------------
\* The save of saveResults (Node.js / Bun branch) and of the Bun module, one
\* file-system call at a time, next to a process that reads outputPath
\* ------------------------------------------------------------------------

\* a report as formatMetrics builds it at clock reading now
SavedReport(now) ==
  formatMetrics("node", "v1", "exp", <<10>>, DefaultMem, DefaultCpu, Ambient("node", now)).ret

\* what an earlier run left at outputPath
PreviousText == WholeText(SavedReport(0))

\* benchmark() has built its report and enters the save; the directory of
\* outputPath may be missing, and the file may exist from an earlier run
InitSave ==
  /\ clock = 1
  /\ fmTimes = << >> /\ fmGiven = << >> /\ fmReports = << >>
  /\ fmArgs = Null
  /\ variant \in {"node", "bun"}
  /\ options = [iterations |-> 0, warmupIterations |-> 0, detailedMetrics |-> FALSE,
                outputPath |-> TRUE]
  /\ missing = "none"
  /\ idx = 0
  /\ heapLevel = 1
  /\ cpuBefore = Null /\ memoryBefore = Null /\ cpuAfter = Null /\ memoryAfter = Null
  /\ memoryBeforeIteration = Null /\ startTime = Null
  /\ executionTimes = <<10>> /\ detailedIterationMetrics = << >>
  /\ metrics = SavedReport(clock)
  /\ returned = << >>
  /\ \/ fsDir = FALSE /\ fsFile = << >>
     \/ fsDir = TRUE /\ fsFile \in {<< >>, <<PreviousText>>}
  /\ saveLog = << >>
  /\ readerSaw = << >>
  /\ events = << >>
  /\ pc = "existsSync"
  /\ ExtIdle

saveFrame == <<clock, fmVars, variant, options, idx, missing, bmLocals, heapLevel, events>>

\* if (!existsSync(dir))
SaveExistsSync ==
  /\ pc = "existsSync"
  /\ saveLog' = Append(saveLog, "existsSync")
  /\ pc' = IF fsDir THEN "open" ELSE "mkdirSync"
  /\ UNCHANGED <<saveFrame, fsDir, fsFile, readerSaw>>
  /\ UNCHANGED extVars

\* mkdirSync(dir, { recursive: true }); an error goes to the catch block
SaveMkdirSync ==
  /\ pc = "mkdirSync"
  /\ \E mk \in {"ok", "fail"} :
       /\ saveLog' = IF mk = "ok" THEN Append(saveLog, "mkdir:ok")
                     ELSE saveLog \o <<"mkdir:fail", "console.error">>
       /\ fsDir' = (mk = "ok")
       /\ pc' = IF mk = "ok" THEN "open" ELSE "return"
  /\ UNCHANGED <<saveFrame, fsFile, readerSaw>>
  /\ UNCHANGED extVars

\* writeFileSync(outputPath, text) opens outputPath for writing: the file is
\* created, or cut to length 0 when it exists
SaveOpen ==
  /\ pc = "open"
  /\ \E op \in {"ok", "fail"} :
       IF op = "ok"
         THEN /\ fsFile' = <<FileText(JsonStringify(metrics), 0)>>
              /\ pc' = "write"
              /\ UNCHANGED saveLog
         ELSE /\ saveLog' = saveLog \o <<"write:fail", "console.error">>
              /\ pc' = "return"
              /\ UNCHANGED fsFile
  /\ UNCHANGED <<saveFrame, fsDir, readerSaw>>
  /\ UNCHANGED extVars

\* writeFileSync writes the text piece by piece until all of it is in the file
SaveWriteChunk ==
  /\ pc = "write"
  /\ \E wr \in {"ok", "fail"} :
       IF wr = "ok"
         THEN /\ fsFile' = <<FileText(fsFile[1].doc, fsFile[1].chunks + 1)>>
              /\ pc' = IF fsFile[1].chunks + 1 = MaxChunks THEN "close" ELSE "write"
              /\ UNCHANGED saveLog
         ELSE /\ saveLog' = saveLog \o <<"write:fail", "console.error">>
              /\ pc' = "return"
              /\ UNCHANGED fsFile
  /\ UNCHANGED <<saveFrame, fsDir, readerSaw>>
  /\ UNCHANGED extVars

\* writeFileSync returns; console.log(`... ${outputPath}`)
SaveClose ==
  /\ pc = "close"
  /\ saveLog' = saveLog \o <<"write:ok", "console.log">>
  /\ pc' = "return"
  /\ UNCHANGED <<saveFrame, fsDir, fsFile, readerSaw>>
  /\ UNCHANGED extVars

\* another process reads outputPath
ReadFile ==
  /\ Len(readerSaw) < MaxReads
  /\ readerSaw' = Append(readerSaw, fsFile)
  /\ UNCHANGED <<saveFrame, pc, fsDir, fsFile, saveLog>>
  /\ UNCHANGED extVars

NextSave ==
  \/ SaveExistsSync
  \/ SaveMkdirSync
  \/ SaveOpen
  \/ SaveWriteChunk
  \/ SaveClose
  \/ Return
  \/ ReadFile

SpecSave == InitSave /\ [][NextSave]_vars

\* ------------------------------------------------------------------------
\* Properties of formatMetrics (checked under SpecFM)
\* ------------------------------------------------------------------------
CountLess(s, v) == Cardinality({i \in DOMAIN s : s[i] < v})
CountLeq(s, v) == Cardinality({i \in DOMAIN s : s[i] <= v})

\* x is the element a 0-based index k selects in the ascending arrangement of s
IsOrderStatistic(s, k, x) ==
  /\ IsNumber(x) /\ x.d = 1
  /\ \E i \in DOMAIN s : s[i] = x.n
  /\ CountLess(s, x.n) <= k
  /\ k < CountLeq(s, x.n)

\* floor(n * pct / 100), taken back to the last index when it equals n
ClampedIndex(n, pct) ==
  LET k == (n * pct) \div 100 IN IF k >= n THEN n - 1 ELSE k

Reported == {fmReports[i] : i \in DOMAIN fmReports}

\* C1: for non-empty durations of length N, statistics.median is the element
\* at index floor(N/2) of the ascending arrangement of the durations (upper
\* median): the single value for N = 1, the larger value for N = 2, and 300
\* for [100,200,300,400,500].
C1_UpperMedian ==
  \A r \in Reported :
    Len(fmGiven) >= 1 =>
      /\ IsOrderStatistic(fmGiven, Len(fmGiven) \div 2, r.statistics.median)
      /\ Len(fmGiven) = 1 => r.statistics.median = Num(fmGiven[1])
      /\ Len(fmGiven) = 2 => r.statistics.median = Num(MaxOf(fmGiven))
      /\ fmGiven = <<100, 200, 300, 400, 500>> => r.statistics.median = Num(300)

C1_Witness ==
  /\ fmReports # << >>
  /\ Len(fmGiven) = 2
  /\ fmGiven[1] > fmGiven[2]
  /\ fmReports[1].statistics.median = Num(fmGiven[1])

\* C2: for non-empty durations of length N, p95 and p99 are the elements at
\* index floor(N*0.95) and floor(N*0.99) of the ascending arrangement
\* (clamped to N-1 should the index equal N); the index is in 0..N-1 and the
\* result is an element of durations; N = 1 gives index 0 and
\* [100,200,300,400,500] gives p95 = p99 = 500.
C2_Percentiles ==
  \A r \in Reported :
    Len(fmGiven) >= 1 =>
      LET n == Len(fmGiven) IN
      /\ ClampedIndex(n, 95) \in 0..(n - 1)
      /\ ClampedIndex(n, 99) \in 0..(n - 1)
      /\ IsOrderStatistic(fmGiven, ClampedIndex(n, 95), r.statistics.p95)
      /\ IsOrderStatistic(fmGiven, ClampedIndex(n, 99), r.statistics.p99)
      /\ n = 1 => /\ ClampedIndex(n, 95) = 0
                  /\ r.statistics.p95 = Num(fmGiven[1])
                  /\ r.statistics.p99 = Num(fmGiven[1])
      /\ fmGiven = <<100, 200, 300, 400, 500>> =>
           r.statistics.p95 = Num(500) /\ r.statistics.p99 = Num(500)

\* a report over at least 101 samples whose p95 and p99 lie below the maximum
C2_Witness ==
  /\ fmReports # << >>
  /\ Len(fmGiven) >= 101
  /\ fmReports[1].statistics.p95.n < fmReports[1].statistics.p99.n
  /\ fmReports[1].statistics.p99.n < MaxOf(fmGiven)

\* C3: with empty durations no report is returned to the caller (the call
\* fails with InvalidInput instead).
C3_EmptyDurationsRejected ==
  Len(fmGiven) = 0 => fmReports = << >>

\* C5: in every report statistics.mean and metrics.averageExecutionTime hold
\* the same value, and for non-empty durations that value is the number
\* sum(durations) / N (for empty durations both hold the NaN that 0/0 gives).
C5_MeanIsAverage ==
  \A r \in Reported :
    /\ r.statistics.mean = r.metrics.averageExecutionTime
    /\ Len(fmGiven) >= 1 =>
         /\ IsNumber(r.statistics.mean)
         /\ r.statistics.mean.n * Len(fmGiven) = SumOf(fmGiven) * r.statistics.mean.d
    /\ Len(fmGiven) = 0 => r.statistics.mean = NaN

C5_Witness ==
  /\ fmReports # << >>
  /\ Len(fmGiven) >= 2
  /\ fmReports[1].metrics.averageExecutionTime.d > 1

\* C6: for non-empty durations, mean, p95 and p99 lie in
\* [min(durations), max(durations)].
C6_WithinRange ==
  \A r \in Reported :
    Len(fmGiven) >= 1 =>
      LET lo == MinOf(fmGiven)
          hi == MaxOf(fmGiven)
          st == r.statistics
      IN /\ IsNumber(st.mean) /\ IsNumber(st.p95) /\ IsNumber(st.p99)
         /\ lo * st.mean.d <= st.mean.n /\ st.mean.n <= hi * st.mean.d
         /\ lo <= st.p95.n /\ st.p95.n <= hi
         /\ lo <= st.p99.n /\ st.p99.n <= hi

C6_Witness ==
  /\ fmReports # << >>
  /\ Len(fmGiven) >= 2
  /\ MinOf(fmGiven) < MaxOf(fmGiven)
  /\ MinOf(fmGiven) * fmReports[1].statistics.mean.d < fmReports[1].statistics.mean.n
  /\ fmReports[1].statistics.p95.n = MaxOf(fmGiven)

SumOfSquares(s) == SumOf([i \in DOMAIN s |-> s[i] * s[i]])

\* C7: statistics.stdDev is the population standard deviation (divisor N):
\* its square is sum(x^2)/N - (sum(x)/N)^2; it is 0 when all durations are
\* identical (N = 1 included) and positive when two durations differ; for
\* [100,200,300,400,500] its square is 20000.
C7_PopulationStdDev ==
  \A r \in Reported :
    Len(fmGiven) >= 1 =>
      LET n == Len(fmGiven)
          sd == r.statistics.stdDev
      IN /\ sd.t \in {"number", "sqrt"}
         /\ sd.d > 0
         /\ sd.n * n * n = sd.d * (n * SumOfSquares(fmGiven) - SumOf(fmGiven) * SumOf(fmGiven))
         /\ MinOf(fmGiven) = MaxOf(fmGiven) => sd = Num(0)
         /\ MinOf(fmGiven) < MaxOf(fmGiven) => sd.t = "sqrt" /\ sd.n > 0
         /\ fmGiven = <<100, 200, 300, 400, 500>> => sd = [t |-> "sqrt", n |-> 20000, d |-> 1]

C7_Witness ==
  /\ fmReports # << >>
  /\ Len(fmGiven) = 3
  /\ MinOf(fmGiven) < MaxOf(fmGiven)
  /\ fmReports[1].statistics.stdDev.t = "sqrt"
  /\ fmReports[1].statistics.stdDev.d > 1

\* C8: formatMetrics leaves the caller's durations array as it was (same
\* elements, same order) and reports that order in metrics.executionTimes;
\* the sorting is done on a copy.
C8_CallerArrayUntouched ==
  /\ fmTimes = fmGiven
  /\ \A r \in Reported : r.metrics.executionTimes = fmGiven

C8_Witness ==
  /\ Len(fmReports) = MaxCalls
  /\ Len(fmGiven) = 3
  /\ fmGiven[1] > fmGiven[2] /\ fmGiven[2] > fmGiven[3]
  /\ fmReports[1].statistics.median = Num(fmGiven[2])

\* C9: two calls with the same runtime, version, experiment, durations and
\* snapshots return the same metrics and statistics; the reports differ in
\* nothing but timestamp, whatever the clock did between the calls.
C9_Deterministic ==
  \A i \in DOMAIN fmReports, j \in DOMAIN fmReports :
    /\ fmReports[i].metrics = fmReports[j].metrics
    /\ fmReports[i].statistics = fmReports[j].statistics
    /\ [fmReports[i] EXCEPT !.timestamp = fmReports[j].timestamp] = fmReports[j]

C9_Witness ==
  /\ Len(fmReports) >= 2
  /\ fmReports[1].timestamp # fmReports[2].timestamp
  /\ Len(fmGiven) >= 2


\* ------------------------------------------------------------------------
\* Properties of benchmark() (checked under Spec)
\* ------------------------------------------------------------------------
ReportBuilt == pc \in {"attach", "save", "return", "done"}

EventsOfKind(kind) == {k \in DOMAIN events : events[k].kind = kind}

UnknownOrMissing(x) == x \in {Unknown, Undefined}

\* C4: a resource field that is "unknown" or missing in the before snapshot,
\* the after snapshot or both is "unknown" in the diff, in the whole-run diff
\* of the report and in each per-iteration diff.
C4_UnknownPropagates ==
  /\ ReportBuilt =>
       LET mu == metrics.metrics.memoryUsage
           cu == metrics.metrics.cpuUsage
       IN /\ \A f \in ResourceFields :
               (UnknownOrMissing(mu.before[f]) \/ UnknownOrMissing(mu.after[f]))
                 => mu.diff[f] = Unknown
          /\ (UnknownOrMissing(cu.before.user) \/ UnknownOrMissing(cu.after.user))
               => cu.diffUser = Unknown
          /\ (UnknownOrMissing(cu.before.system) \/ UnknownOrMissing(cu.after.system))
               => cu.diffSystem = Unknown
  /\ \A k \in DOMAIN detailedIterationMetrics :
       LET m == detailedIterationMetrics[k].memory
       IN \A f \in ResourceFields :
            (UnknownOrMissing(m.before[f]) \/ UnknownOrMissing(m.after[f]))
              => m.diff[f] = Unknown

\* C10: the whole-run snapshots are taken once each: "before" after all
\* warm-up calls and ahead of every measured iteration, "after" behind the
\* last measured iteration; memoryUsage and cpuUsage of the report (before,
\* after, diff) come from exactly that pair.
C10_WholeRunSnapshots ==
  /\ Cardinality(EventsOfKind("before")) <= 1
  /\ Cardinality(EventsOfKind("after")) <= 1
  /\ \A b \in EventsOfKind("before") :
       /\ Cardinality({k \in EventsOfKind("warmup") : k < b}) = options.warmupIterations
       /\ \A k \in DOMAIN events :
            events[k].kind \in {"iterationStart", "iterationEnd", "after"} => k > b
       /\ \A k \in EventsOfKind("warmup") : k < b
  /\ \A a \in EventsOfKind("after") :
       /\ Cardinality({k \in EventsOfKind("iterationEnd") : k < a}) = options.iterations
       /\ \A k \in DOMAIN events : events[k].kind # "format" => k <= a
  /\ ReportBuilt =>
       \E b \in EventsOfKind("before"), a \in EventsOfKind("after") :
         LET mu == metrics.metrics.memoryUsage
             cu == metrics.metrics.cpuUsage
         IN /\ mu.before = events[b].mem /\ mu.after = events[a].mem
            /\ cu.before = events[b].cpu /\ cu.after = events[a].cpu
            /\ \A f \in ResourceFields :
                 mu.diff[f] = JsSub(events[a].mem[f], events[b].mem[f])
            /\ cu.diffUser = JsSub(events[a].cpu.user, events[b].cpu.user)
            /\ cu.diffSystem = JsSub(events[a].cpu.system, events[b].cpu.system)

C10_Witness ==
  /\ pc = "done"
  /\ options.iterations >= 2 /\ options.warmupIterations >= 1 /\ options.detailedMetrics
  /\ missing = "none"
  /\ LET mu == returned[1].metrics.memoryUsage
     IN /\ mu.before # detailedIterationMetrics[1].memory.before
        /\ mu.before.timestamp.n < detailedIterationMetrics[1].memory.before.timestamp.n
        /\ mu.after.rss.n > detailedIterationMetrics[1].memory.after.rss.n
        /\ mu.diff.rss.n > 0


\* the position in events of the k-th event of a kind
NthEvent(kind, k) ==
  CHOOSE e \in EventsOfKind(kind) :
    Cardinality({j \in EventsOfKind(kind) : j <= e}) = k

ReportAttached == pc \in {"save", "return", "done"}

\* C11: with detailedMetrics set, the report benchmark() saves and returns
\* has detailedIterationMetrics with exactly one entry per measured
\* iteration, in execution order: entry k has iteration = k, executionTime
\* equal to metrics.executionTimes[k-1], the memory snapshots taken right
\* before and right after the k-th measured call, and as diff their
\* field-wise difference (after - before) for the fields both snapshots
\* hold; with detailedMetrics unset the report has no
\* detailedIterationMetrics key.
C11_DetailedIterationMetrics ==
  /\ ReportAttached /\ ~options.detailedMetrics =>
       "detailedIterationMetrics" \notin DOMAIN metrics
  /\ ReportAttached /\ options.detailedMetrics =>
       /\ "detailedIterationMetrics" \in DOMAIN metrics
       /\ Len(metrics.detailedIterationMetrics) = options.iterations
       /\ \A k \in 1..options.iterations :
            LET entry == metrics.detailedIterationMetrics[k]
                before == events[NthEvent("iterationStart", k)].mem
                after == events[NthEvent("iterationEnd", k)].mem
            IN /\ entry.iteration = k
               /\ entry.executionTime = Num(metrics.metrics.executionTimes[k])
               /\ entry.memory.before = before
               /\ entry.memory.after = after
               /\ \A f \in ResourceFields :
                    IsNumber(before[f]) /\ IsNumber(after[f]) =>
                      entry.memory.diff[f] = JsSub(after[f], before[f])
  /\ pc = "done" => returned = <<metrics>>

\* a returned report of two iterations whose entries differ in duration and
\* in their snapshots
C11_Witness ==
  /\ pc = "done"
  /\ options.detailedMetrics
  /\ options.iterations = 2
  /\ LET d == returned[1].detailedIterationMetrics
     IN /\ d[1].iteration = 1 /\ d[2].iteration = 2
        /\ d[1].executionTime # d[2].executionTime
        /\ d[1].memory.before # d[2].memory.before
        /\ d[1].memory.after # d[2].memory.before
        /\ d[2].memory.diff.rss.n > 0


\* C12: the report is constructed in one step and never changed
\* afterwards: from the moment formatMetrics has returned it, no step of
\* benchmark() adds, removes or alters a field of it before it is saved and
\* returned.
C12_NeverMutated ==
  [][ReportBuilt =>
       /\ DOMAIN metrics' = DOMAIN metrics
       /\ metrics' = metrics]_vars


\* the save was attempted and its last line is the error message
SaveFailed == saveLog # << >> /\ saveLog[Len(saveLog)] = "console.error"

\* C13: when the destination cannot be created or written, the save reports
\* the failure to its caller: a save that comes back to benchmark() in the
\* normal way has put the report into the file.
C13_FailureReported ==
  pc \in {"return", "done"} => ~SaveFailed

\* C14: in every module, whatever the file system does during the save,
\* benchmark() is not aborted: the step after the save is the return, and
\* the object returned is the report as it stood before the save - the same
\* object a successful save is followed by.
C14_ReturnedDespiteFailure ==
  [][/\ pc = "save" => pc' = "return" /\ metrics' = metrics
     /\ pc = "return" => pc' = "done" /\ returned' = <<metrics>>]_vars

\* a run whose save failed, left no file, and returned the report
C14_Witness ==
  /\ pc = "done"
  /\ SaveFailed
  /\ fsFile = << >>
  /\ returned = <<metrics>>
  /\ options.iterations >= 1


IsWriteCall(line) == line \in {"write:ok", "write:fail"}

\* C15: the save makes a single attempt to write the report: at most one
\* write call per save, and no write call after one that failed.
C15_SingleWriteAttempt ==
  /\ Cardinality({j \in DOMAIN saveLog : IsWriteCall(saveLog[j])}) <= 1
  /\ \A i \in DOMAIN saveLog, j \in DOMAIN saveLog :
       saveLog[i] = "write:fail" /\ i < j => ~IsWriteCall(saveLog[j])

\* C16: the save creates the missing directory of outputPath before its
\* first write call: when the directory is missing as the save begins, every
\* write call of the save comes after a successful mkdir.
C16_DirectoryBeforeWrite ==
  [][pc = "save" /\ ~fsDir =>
       \A j \in DOMAIN saveLog' :
         IsWriteCall(saveLog'[j]) => \E i \in 1..(j - 1) : saveLog'[i] = "mkdir:ok"]_vars


\* ------------------------------------------------------------------------
\* Properties of the save next to a reader (checked under SpecSave)
\* ------------------------------------------------------------------------
SaveSucceeded == saveLog # << >> /\ saveLog[Len(saveLog)] = "console.log"

\* C17: after a successful save, everything a process reading outputPath
\* has found there is no file, the previous content, or the complete JSON
\* document of the report - never a part of it.
C17_NoPartialRead ==
  pc \in {"return", "done"} /\ SaveSucceeded =>
    \A k \in DOMAIN readerSaw :
      readerSaw[k] \in {<< >>, <<PreviousText>>, <<WholeText(metrics)>>}


\* ------------------------------------------------------------------------
\* Properties of benchmark(), continued (checked under Spec)
\* ------------------------------------------------------------------------

\* C18: the measured calls run one after another: call k+1 is entered only
\* after call k has returned and its duration is in executionTimes, and
\* each sample is the time between the entry and the return of its own
\* call; formatMetrics is invoked once, after all `iterations` samples and
\* after every call, so the durations it reports are exactly `iterations`
\* samples of measured calls, all of them later than every warm-up call.
C18_SequentialIterations ==
  LET starts == EventsOfKind("iterationStart")
      ends == EventsOfKind("iterationEnd")
      formats == EventsOfKind("format")
  IN /\ Cardinality(ends) = Len(executionTimes)
     /\ Cardinality(starts) = Len(executionTimes) + (IF pc = "fn" THEN 1 ELSE 0)
     /\ \A k \in 1..Cardinality(starts) :
          k > 1 => NthEvent("iterationEnd", k - 1) < NthEvent("iterationStart", k)
     /\ \A k \in 1..Cardinality(ends) :
          LET s == NthEvent("iterationStart", k)
              e == NthEvent("iterationEnd", k)
          IN /\ s < e
             /\ executionTimes[k] = events[e].at - events[s].at
     /\ \A w \in EventsOfKind("warmup"), s \in starts : w < s
     /\ Cardinality(formats) <= 1
     /\ \A f \in formats :
          /\ Cardinality({e \in ends : e < f}) = options.iterations
          /\ \A k \in DOMAIN events : k <= f
     /\ ReportBuilt =>
          /\ Cardinality(formats) = 1
          /\ Len(metrics.metrics.executionTimes) = options.iterations
          /\ metrics.metrics.executionTimes = executionTimes

\* a finished run of the Deno module with a warm-up call and two measured
\* calls of different duration
C18_Witness ==
  /\ pc = "done"
  /\ variant = "deno"
  /\ options.iterations = 2
  /\ EventsOfKind("warmup") # {}
  /\ Cardinality(EventsOfKind("format")) = 1
  /\ returned[1].metrics.executionTimes = <<2, 1>>


BaseKeys ==
  {"runtime", "version", "experiment", "timestamp", "environment", "metrics", "statistics"}

\* a report with the seven base keys, optionally detailedIterationMetrics,
\* and the identification the module v passed to formatMetrics
WellKeyed(r, v) ==
  /\ DOMAIN r \in {BaseKeys, BaseKeys \cup {"detailedIterationMetrics"}}
  /\ r.runtime = RuntimeName(v)
  /\ r.version = RuntimeVersion(v)
  /\ r.experiment = "exp"

\* C19: every report - the object after formatMetrics, the object returned
\* and the document written - has the top-level keys runtime, version,
\* experiment, timestamp, environment, metrics and statistics, plus
\* optionally detailedIterationMetrics, and no other; runtime, version and
\* experiment hold the values the module passed in.
C19_TopLevelKeys ==
  /\ ReportBuilt => WellKeyed(metrics, variant)
  /\ \A j \in DOMAIN returned : WellKeyed(returned[j], variant)
  /\ \A j \in DOMAIN fsFile : WellKeyed(fsFile[j].doc, variant)

\* a run of deno/computational that wrote and returned a report with the
\* optional key
C19_Witness ==
  /\ pc = "done"
  /\ variant = "denoComp"
  /\ fsFile # << >>
  /\ DOMAIN returned[1] = BaseKeys \cup {"detailedIterationMetrics"}
  /\ DOMAIN fsFile[1].doc = DOMAIN returned[1]
  /\ returned[1].runtime = "deno"


\* C20: in every report environment.cpuCores is the number of cores or the
\* literal "unknown", and environment.memory is the total memory (a number
\* or a size such as "8MB") or the literal "unknown"; no other placeholder.
C20_UnknownPlaceholders ==
  ReportBuilt =>
    /\ IsNumber(metrics.environment.cpuCores) \/ metrics.environment.cpuCores = Unknown
    /\ \/ IsNumber(metrics.environment.memory)
       \/ metrics.environment.memory.t = "str:MB"
       \/ metrics.environment.memory = Unknown


\* ------------------------------------------------------------------------
\* Properties of formatMetrics on a growing array (checked under SpecGrow)
\* ------------------------------------------------------------------------
IsPrefix(a, b) == Len(a) <= Len(b) /\ SubSeq(b, 1, Len(a)) = a

\* the samples of the longer array b behind its prefix a
AppendedTo(a, b) == {b[j] : j \in (Len(a) + 1)..Len(b)}

\* C21 as stated: when further samples taken from the same set of values
\* are appended to a non-empty durations array, p95 and p99 of the longer
\* array are not smaller than those of the shorter one.
C21_PercentilesNonDecreasing ==
  \A i \in DOMAIN fmReports, j \in DOMAIN fmReports :
    IsPrefix(fmReports[i].metrics.executionTimes, fmReports[j].metrics.executionTimes) =>
      /\ fmReports[i].statistics.p95.n <= fmReports[j].statistics.p95.n
      /\ fmReports[i].statistics.p99.n <= fmReports[j].statistics.p99.n

\* C21 (amended): when the appended samples are all at least the p95 (the
\* p99) of the shorter array, the p95 (the p99) of the longer array is not
\* smaller than that of the shorter one; appended samples below it can lower
\* the percentile.
C21_NonDecreasingWhenAppendedAbove ==
  \A i \in DOMAIN fmReports, j \in DOMAIN fmReports :
    LET a == fmReports[i].metrics.executionTimes
        b == fmReports[j].metrics.executionTimes
        si == fmReports[i].statistics
        sj == fmReports[j].statistics
    IN IsPrefix(a, b) =>
         /\ (\A x \in AppendedTo(a, b) : x >= si.p95.n) => si.p95.n <= sj.p95.n
         /\ (\A x \in AppendedTo(a, b) : x >= si.p99.n) => si.p99.n <= sj.p99.n

\* two reports, the second on an array grown by samples above the first p95,
\* with a p95 that went up and is not the largest sample
C21_Witness ==
  /\ Len(fmReports) = 2
  /\ Len(fmReports[1].metrics.executionTimes) >= 20
  /\ Len(fmReports[2].metrics.executionTimes) > Len(fmReports[1].metrics.executionTimes)
  /\ \A x \in AppendedTo(fmReports[1].metrics.executionTimes,
                        fmReports[2].metrics.executionTimes) :
       x >= fmReports[1].statistics.p95.n
  /\ fmReports[1].statistics.p95.n < fmReports[2].statistics.p95.n
  /\ fmReports[1].statistics.p95.n < MaxOf(fmGiven)

\* ------------------------------------------------------------------------
\* The HTTP servers: one request answered by each of the three handlers
\* ------------------------------------------------------------------------
Servers == {"node", "deno", "bun"}

Response(status, body) == [status |-> status, body |-> body]
NoResponse == Response(0, "")

\* a request target is its path followed by its query string, each a
\* sequence of parts: "/" and "?" stand for themselves
Paths ==
  {<<"/", "ping">>, <<"/">>, <<"/", "api", "/", "ping">>, <<"/", "pong">>,
   <<"/", "ping", "/">>, <<"/", "PING">>}

Queries == {<< >>, <<"?", "x=1">>, <<"?", "next=", "/", "ping">>}

Targets == {path \o query : path \in Paths, query \in Queries}

\* String.prototype.endsWith
EndsWith(str, suffix) ==
  /\ Len(suffix) <= Len(str)
  /\ SubSeq(str, Len(str) - Len(suffix) + 1, Len(str)) = suffix

\* new URL(href).pathname: what stands between the origin and the "?"
Pathname(href) ==
  LET rest == SubSeq(href, 2, Len(href))
      cut == {k \in DOMAIN rest : rest[k] = "?"}
  IN IF cut = {} THEN rest
     ELSE SubSeq(rest, 1, (CHOOSE k \in cut : \A l \in cut : k <= l) - 1)

\* req.url of http.IncomingMessage: the request target
NodeReqUrl(target) == target

\* req.url of a Request (Deno.serve, Bun.serve): the absolute URL
FetchReqUrl(target) == <<"http://host">> \o target

\* http.createServer((req, res) => { if (req.url === '/ping') ... })
NodeHandler(url) ==
  IF url = <<"/", "ping">> THEN Response(200, "pong") ELSE Response(404, "Not Found")

\* Deno.serve(..., (req) => { if (req.url.endsWith('/ping')) ... })
DenoHandler(url) ==
  IF EndsWith(url, <<"/", "ping">>) THEN Response(200, "pong")
  ELSE Response(404, "Not Found")

\* Bun.serve({ fetch(req) { if (new URL(req.url).pathname === '/ping') ... } })
BunHandler(url) ==
  IF Pathname(url) = <<"/", "ping">> THEN Response(200, "pong")
  ELSE Response(404, "Not Found")

InitHttp ==
  /\ HttpOthersIdle
  /\ reqUrl \in Targets
  /\ responses = [srv \in Servers |-> NoResponse]

NodeServe ==
  /\ reqUrl # << >>
  /\ responses["node"] = NoResponse
  /\ responses' = [responses EXCEPT !["node"] = NodeHandler(NodeReqUrl(reqUrl))]
  /\ UNCHANGED <<reqUrl, httpFrame>>

DenoServe ==
  /\ reqUrl # << >>
  /\ responses["deno"] = NoResponse
  /\ responses' = [responses EXCEPT !["deno"] = DenoHandler(FetchReqUrl(reqUrl))]
  /\ UNCHANGED <<reqUrl, httpFrame>>

BunServe ==
  /\ reqUrl # << >>
  /\ responses["bun"] = NoResponse
  /\ responses' = [responses EXCEPT !["bun"] = BunHandler(FetchReqUrl(reqUrl))]
  /\ UNCHANGED <<reqUrl, httpFrame>>

NextHttp == NodeServe \/ DenoServe \/ BunServe

SpecHttp == InitHttp /\ [][NextHttp]_vars

\* C22: the three servers implement one API: whatever the request target,
\* a server that has answered has answered 200 'pong' when the target is
\* exactly /ping and 404 otherwise - also for a target that merely ends in
\* /ping or that adds a query string to /ping - so all three answers agree
\* in status and body.
C22_IdenticalApi ==
  \A srv \in Servers :
    responses[srv] # NoResponse =>
      /\ responses[srv].status = (IF reqUrl = <<"/", "ping">> THEN 200 ELSE 404)
      /\ responses[srv].body = (IF reqUrl = <<"/", "ping">> THEN "pong" ELSE "Not Found")
      /\ \A other \in Servers :
           responses[other] # NoResponse => responses[other] = responses[srv]

\* ------------------------------------------------------------------------
\* The cold-start script: main, run_benchmark_iteration, calculate_statistics
\* ------------------------------------------------------------------------
FailureLimit == 3

\* ${ARRAY[$k]} in a here-document: the digits of the element, or nothing
\* when the element was never assigned
Expand(array, k) == IF k \in DOMAIN array THEN <<array[k]>> ELSE << >>

\* one element of "iterations" as the script writes it
IterationJson(k, startup, first, total) ==
  [iteration |-> k, startup_time_ms |-> startup, first_request_time_ms |-> first,
   total_cold_start_time_ms |-> total]

\* a total taken from T1 instead of T0
ColdStartTimesFromReady(t0, t1, t2) ==
  [startup_time |-> t1 - t0, first_request_time |-> t2 - t1, total_time |-> t2 - t1]

\* startup_time=$((ready_time - start_time)),
\* first_request_time=$((request_time - ready_time)),
\* total_time=$((request_time - start_time))
ColdStartTimes(t0, t1, t2) ==
  [startup_time |-> t1 - t0, first_request_time |-> t2 - t1, total_time |-> t2 - t0]

\* a counter that a successful iteration leaves as it is
FailedAfterNoReset(failed, ok) == IF ok THEN failed ELSE failed + 1

\* failed_iterations=$((failed_iterations + 1)) / failed_iterations=0
FailedAfter(failed, ok) == IF ok THEN 0 ELSE failed + 1

\* a wait that flips between two values instead of adding up
NextWaitFlip(wait) == IF wait = 0 THEN 1 ELSE 0

\* wait_seconds=$(echo "$wait_seconds + 0.1" | bc -l)
NextWait(wait) == wait + 1

\* the second half of each loop condition, negated:
\* [ $(echo "$wait_seconds < $MAX_WAIT_TIME" | bc -l) -eq 1 ]
WaitExpired(wait) == ~(wait < MaxWaitTicks)

\* the passes of a polling loop at which the container may answer: the first
\* and the last before the wait expires
PollsAnswered == {0, MaxWaitTicks - 1}

InitCold ==
  /\ ColdOthersIdle
  /\ ITERATIONS \in {1, MaxColdIter}
  /\ csPc = "loop" /\ csClock = 0 /\ csIter = 1
  /\ failed_iterations = 0 /\ start_time = 0 /\ ready_time = << >> /\ request_time = 0
  /\ wait_seconds = 0
  /\ STARTUP_TIMES = << >> /\ FIRST_REQUEST_TIMES = << >> /\ TOTAL_TIMES = << >>
  /\ containers = {} /\ resultsFile = << >> /\ exitCode = << >> /\ csHistory = << >>

\* main after run_benchmark_iteration has returned: count the failure and
\* exit 1 at the limit (the EXIT trap removes the containers), or reset the
\* counter, and go on with the next i
ReturnToMain(ok) ==
  /\ failed_iterations' = FailedAfter(failed_iterations, ok)
  /\ IF ~ok /\ failed_iterations' >= FailureLimit
       THEN /\ csPc' = "exited"
            /\ exitCode' = <<1>>
            /\ csIter' = csIter
            /\ containers' = {}
       ELSE /\ csPc' = "loop"
            /\ exitCode' = exitCode
            /\ csIter' = csIter + 1
            /\ containers' = containers \ {csIter}

\* for ((i=1; i<=$ITERATIONS; i++)): run_benchmark_iteration $i up to the
\* first loop: T0 is read, docker run -d starts the container
StartColdIteration ==
  /\ csPc = "loop"
  /\ csIter <= ITERATIONS
  /\ start_time' = csClock
  /\ csClock' = csClock + 1
  /\ containers' = containers \cup {csIter}
  /\ ready_time' = << >>
  /\ wait_seconds' = 0
  /\ csPc' = "waitReady"
  /\ UNCHANGED <<ITERATIONS, csIter, failed_iterations, request_time, STARTUP_TIMES,
                 FIRST_REQUEST_TIMES, TOTAL_TIMES, resultsFile, exitCode, csHistory,
                 coldFrame>>

\* one pass of the first loop: docker logs | grep READY_TIMESTAMP finds the
\* time stamp the server printed at some moment since T0, or nothing and the
\* script sleeps
PollReady ==
  /\ csPc = "waitReady"
  /\ ready_time = << >> /\ ~WaitExpired(wait_seconds)
  /\ \/ /\ wait_seconds \in PollsAnswered
        /\ \E stamp \in {start_time + 1, csClock} : ready_time' = <<stamp>>
        /\ wait_seconds' = 0
        /\ csPc' = "waitRequest"
        /\ UNCHANGED csClock
     \/ /\ wait_seconds' = NextWait(wait_seconds)
        /\ csClock' = csClock + 1
        /\ UNCHANGED <<ready_time, csPc>>
  /\ UNCHANGED <<ITERATIONS, csIter, failed_iterations, start_time, request_time,
                 STARTUP_TIMES, FIRST_REQUEST_TIMES, TOTAL_TIMES, containers, resultsFile,
                 exitCode, csHistory, coldFrame>>

\* the first loop ended without a time stamp: docker rm -f, return 1
ReadyTimeout ==
  /\ csPc = "waitReady"
  /\ ready_time = << >> /\ WaitExpired(wait_seconds)
  /\ csHistory' = Append(csHistory, FALSE)
  /\ ReturnToMain(FALSE)
  /\ UNCHANGED <<csClock, ITERATIONS, start_time, ready_time, request_time, wait_seconds,
                 STARTUP_TIMES, FIRST_REQUEST_TIMES, TOTAL_TIMES, resultsFile, coldFrame>>

\* one pass of the second loop: curl succeeds - T2 is read, the times are
\* computed and stored, the container is stopped and removed, jq appends the
\* iteration to RESULTS_FILE, return 0 - or curl fails and the script sleeps
PollRequest ==
  /\ csPc = "waitRequest"
  /\ ~WaitExpired(wait_seconds)
  /\ csClock' = csClock + 1
  /\ \/ LET times == ColdStartTimes(start_time, ready_time[1], csClock')
        IN /\ wait_seconds \in PollsAnswered
           /\ request_time' = csClock'
           /\ STARTUP_TIMES' = (csIter :> times.startup_time) @@ STARTUP_TIMES
           /\ FIRST_REQUEST_TIMES' = (csIter :> times.first_request_time) @@ FIRST_REQUEST_TIMES
           /\ TOTAL_TIMES' = (csIter :> times.total_time) @@ TOTAL_TIMES
           /\ resultsFile' = Append(resultsFile,
                                    IterationJson(csIter, <<times.startup_time>>,
                                                  <<times.first_request_time>>,
                                                  <<times.total_time>>))
           /\ csHistory' = Append(csHistory, TRUE)
           /\ ReturnToMain(TRUE)
           /\ UNCHANGED wait_seconds
     \/ /\ wait_seconds' = NextWait(wait_seconds)
        /\ UNCHANGED <<csPc, csIter, failed_iterations, request_time, STARTUP_TIMES,
                       FIRST_REQUEST_TIMES, TOTAL_TIMES, containers, resultsFile, exitCode,
                       csHistory>>
  /\ UNCHANGED <<ITERATIONS, start_time, ready_time, coldFrame>>

\* the second loop ended without an answer: docker rm -f, return 1
RequestTimeout ==
  /\ csPc = "waitRequest"
  /\ WaitExpired(wait_seconds)
  /\ csHistory' = Append(csHistory, FALSE)
  /\ ReturnToMain(FALSE)
  /\ UNCHANGED <<csClock, ITERATIONS, start_time, ready_time, request_time, wait_seconds,
                 STARTUP_TIMES, FIRST_REQUEST_TIMES, TOTAL_TIMES, resultsFile, coldFrame>>

\* behind the loop: calculate_statistics rewrites RESULTS_FILE with one
\* element per i in 1..ITERATIONS from the three arrays; the script ends
CalculateStatistics ==
  /\ csPc = "loop"
  /\ csIter > ITERATIONS
  /\ resultsFile' = [k \in 1..ITERATIONS |->
                       IterationJson(k, Expand(STARTUP_TIMES, k),
                                     Expand(FIRST_REQUEST_TIMES, k), Expand(TOTAL_TIMES, k))]
  /\ csPc' = "exited"
  /\ exitCode' = <<0>>
  /\ UNCHANGED <<csClock, ITERATIONS, csIter, failed_iterations, start_time, ready_time,
                 request_time, wait_seconds, STARTUP_TIMES, FIRST_REQUEST_TIMES, TOTAL_TIMES,
                 containers, csHistory, coldFrame>>

NextCold ==
  \/ StartColdIteration
  \/ PollReady
  \/ ReadyTimeout
  \/ PollRequest
  \/ RequestTimeout
  \/ CalculateStatistics

SpecCold == InitCold /\ [][NextCold]_vars

\* every command of the script returns, so a script that can take a step
\* takes one
SpecColdFair == SpecCold /\ WF_vars(NextCold)

\* the iteration that returned last, and whether it recorded times
LastIteration == Len(csHistory)
Returned == csPc \in {"loop", "exited"} /\ csHistory # << >>

\* C23: an iteration that recorded times stored startup = T1 - T0, first
\* request = T2 - T1 and total = T2 - T0 under its number, and no later step
\* changes them, so every total is the sum of the other two; and T2 is read
\* only in the second loop, when T1 has been obtained
C23_ColdStartTimes ==
  /\ [](/\ (Returned /\ csHistory[LastIteration]) =>
             /\ STARTUP_TIMES[LastIteration] = ready_time[1] - start_time
             /\ FIRST_REQUEST_TIMES[LastIteration] = request_time - ready_time[1]
             /\ TOTAL_TIMES[LastIteration] = request_time - start_time
        /\ DOMAIN STARTUP_TIMES = {k \in 1..LastIteration : csHistory[k]}
        /\ DOMAIN FIRST_REQUEST_TIMES = DOMAIN STARTUP_TIMES
        /\ DOMAIN TOTAL_TIMES = DOMAIN STARTUP_TIMES
        /\ \A k \in DOMAIN TOTAL_TIMES :
             /\ TOTAL_TIMES[k] = STARTUP_TIMES[k] + FIRST_REQUEST_TIMES[k]
             /\ csPc # "exited" =>
                  \E e \in 1..Len(resultsFile) :
                    resultsFile[e] = IterationJson(k, <<STARTUP_TIMES[k]>>,
                                                   <<FIRST_REQUEST_TIMES[k]>>,
                                                   <<TOTAL_TIMES[k]>>))
  /\ [][/\ \A k \in DOMAIN TOTAL_TIMES :
             /\ STARTUP_TIMES'[k] = STARTUP_TIMES[k]
             /\ FIRST_REQUEST_TIMES'[k] = FIRST_REQUEST_TIMES[k]
             /\ TOTAL_TIMES'[k] = TOTAL_TIMES[k]
        /\ request_time' # request_time =>
             /\ csPc = "waitRequest" /\ ready_time # << >>
             /\ request_time' = csClock' /\ csClock' > csClock
             /\ ready_time[1] <= csClock]_vars

\* an iteration that waited in both loops has recorded a startup time and a
\* first request time above one tick, after an iteration that failed
C23_Witness ==
  /\ Returned /\ csHistory[LastIteration]
  /\ \E k \in 1..LastIteration : ~csHistory[k]
  /\ STARTUP_TIMES[LastIteration] > 1
  /\ FIRST_REQUEST_TIMES[LastIteration] > 1
  /\ start_time > 0

\* the number of failed iterations at the end of the history
RECURSIVE TrailingFailures(_)
TrailingFailures(history) ==
  IF history = << >> \/ history[Len(history)] THEN 0
  ELSE 1 + TrailingFailures(SubSeq(history, 1, Len(history) - 1))

ThreeInARow ==
  \E k \in 1..(Len(csHistory) - 2) : ~csHistory[k] /\ ~csHistory[k + 1] /\ ~csHistory[k + 2]

C25_FinalEntriesMeasured ==
  (csPc = "exited" /\ exitCode = <<0>>) =>
    \A e \in 1..Len(resultsFile) :
      LET entry == resultsFile[e]
          k == entry.iteration
      IN /\ k \in DOMAIN STARTUP_TIMES /\ csHistory[k]
         /\ entry.startup_time_ms = <<STARTUP_TIMES[k]>>
         /\ entry.first_request_time_ms = <<FIRST_REQUEST_TIMES[k]>>
         /\ entry.total_cold_start_time_ms = <<TOTAL_TIMES[k]>>

InLoop == csPc \in {"waitReady", "waitRequest"}

\* C26: both polling loops end: the loop waiting for READY_TIMESTAMP leads to
\* the second loop or back to main, the loop waiting for the first answer
\* leads back to main; every pass without success adds to the wait, which
\* never passes the maximum; and an iteration that ends on the expired wait
\* removes its container and returns failure with no times recorded for it
C26_PollingLoopsEnd ==
  /\ (csPc = "waitReady") ~> (csPc \in {"waitRequest", "loop", "exited"})
  /\ (csPc = "waitRequest") ~> (csPc \in {"loop", "exited"})
  /\ [](wait_seconds <= MaxWaitTicks)
  /\ [][/\ (InLoop /\ csPc' = csPc) => wait_seconds' > wait_seconds
        /\ (InLoop /\ WaitExpired(wait_seconds)) =>
             /\ csPc' \in {"loop", "exited"}
             /\ csIter \notin containers'
             /\ csHistory' = Append(csHistory, FALSE)
             /\ csIter \notin DOMAIN STARTUP_TIMES' \cup DOMAIN FIRST_REQUEST_TIMES'
                                \cup DOMAIN TOTAL_TIMES'
             /\ resultsFile' = resultsFile]_vars

\* an iteration got its READY_TIMESTAMP, waited for an answer until the wait
\* expired and returned failure, its container removed
C26_Witness ==
  /\ Returned /\ ~csHistory[LastIteration]
  /\ ready_time # << >> /\ wait_seconds = MaxWaitTicks
  /\ LastIteration \notin containers
  /\ LastIteration \notin DOMAIN TOTAL_TIMES
  /\ \E k \in 1..LastIteration : csHistory[k]

\* ------------------------------------------------------------------------
\* The async benchmark script: docker compose up, the probes of /async-bench,
\* the wrk iterations, the results file, docker compose stop, exit
\* ------------------------------------------------------------------------
ProbeAttempts == 10

AsyncRuntimes == {"node", "deno", "bun"}

\* an exit code that the last wrk run alone decides
WrkExitCodeOfLast(code, current) == current

\* if [ $CURRENT_WRK_EXIT_CODE -ne 0 ]; then WRK_EXIT_CODE=$CURRENT_WRK_EXIT_CODE
WrkExitCodeAfter(code, current) == IF current # 0 THEN current ELSE code

\* if [ $CURRENT_WRK_EXIT_CODE -ne 0 ]; then SUCCESS=false
SuccessAfter(success, current) == IF current # 0 THEN "false" ELSE success

\* one element of "iterations": "success" is true for exit code 0
AsyncIterationJson(i, current) ==
  [iteration |-> i, success |-> IF current = 0 THEN "true" ELSE "false"]

InitAsync ==
  /\ AbOthersIdle
  /\ RUNTIME \in AsyncRuntimes \cup {"python"}
  /\ abIterations \in 0..MaxAsyncIter
  /\ abPc = "args" /\ abService = "none"
  /\ abProbe = 0 /\ abProbed = FALSE /\ abIter = 0 /\ SUCCESS = "" /\ WRK_EXIT_CODE = 0
  /\ abResultsFile = << >> /\ abWrkRuns = 0 /\ abExit = << >>

\* case $RUNTIME in ... *) exit 1; then docker compose up -d $SERVICE
ComposeUp ==
  /\ abPc = "args"
  /\ IF RUNTIME \in AsyncRuntimes
       THEN /\ abService' = "up"
            /\ abProbe' = 1
            /\ abPc' = "probe"
            /\ UNCHANGED abExit
       ELSE /\ abExit' = <<1>>
            /\ abPc' = "exited"
            /\ UNCHANGED <<abService, abProbe>>
  /\ UNCHANGED <<RUNTIME, abIterations, abProbed, abIter, SUCCESS, WRK_EXIT_CODE,
                 abResultsFile, abWrkRuns, abFrame>>

\* one pass of for i in {1..10}: curl answers - break, and the head of the
\* results file is written, SUCCESS=true, WRK_EXIT_CODE=0 - or it does not:
\* at i = 10 docker compose stop and exit 1, else sleep and the next pass
Probe ==
  /\ abPc = "probe"
  /\ \/ /\ abProbed' = TRUE
        /\ abResultsFile' = <<[iterations |-> << >>, success |-> ""]>>
        /\ SUCCESS' = "true"
        /\ WRK_EXIT_CODE' = 0
        /\ abIter' = 1
        /\ abPc' = "run"
        /\ UNCHANGED <<abProbe, abService, abExit>>
     \/ /\ IF abProbe = ProbeAttempts
             THEN /\ abService' = "stopped"
                  /\ abExit' = <<1>>
                  /\ abPc' = "exited"
                  /\ UNCHANGED abProbe
             ELSE /\ abProbe' = abProbe + 1
                  /\ UNCHANGED <<abService, abExit, abPc>>
        /\ UNCHANGED <<abProbed, abResultsFile, SUCCESS, WRK_EXIT_CODE, abIter>>
  /\ UNCHANGED <<RUNTIME, abIterations, abWrkRuns, abFrame>>

\* one pass of for ((i=1; i<=$ITERATIONS; i++)): wrk runs and ends with some
\* exit code, the status is updated, the iteration is added to the file
RunWrk ==
  /\ abPc = "run"
  /\ abIter <= abIterations
  /\ \E current \in 0..MaxWrkExit :
       /\ SUCCESS' = SuccessAfter(SUCCESS, current)
       /\ WRK_EXIT_CODE' = WrkExitCodeAfter(WRK_EXIT_CODE, current)
       /\ abResultsFile' = <<[abResultsFile[1] EXCEPT
                                !.iterations = Append(@, AsyncIterationJson(abIter, current))]>>
  /\ abWrkRuns' = abWrkRuns + 1
  /\ abIter' = abIter + 1
  /\ UNCHANGED <<abPc, RUNTIME, abIterations, abService, abProbe, abProbed, abExit, abFrame>>

\* behind the loop: "success": $SUCCESS closes the file, docker compose stop,
\* exit $WRK_EXIT_CODE
FinishAsync ==
  /\ abPc = "run"
  /\ abIter > abIterations
  /\ abResultsFile' = <<[abResultsFile[1] EXCEPT !.success = SUCCESS]>>
  /\ abService' = "stopped"
  /\ abExit' = <<WRK_EXIT_CODE>>
  /\ abPc' = "exited"
  /\ UNCHANGED <<RUNTIME, abIterations, abProbe, abProbed, abIter, SUCCESS, WRK_EXIT_CODE,
                 abWrkRuns, abFrame>>

NextAsync == ComposeUp \/ Probe \/ RunWrk \/ FinishAsync

SpecAsync == InitAsync /\ [][NextAsync]_vars

AllProbesFailed == abPc = "exited" /\ abProbe = ProbeAttempts /\ ~abProbed

\* what the script does around the probes and the service, whatever the
\* reading of its exit code
AsyncProbesAndService ==
  /\ abWrkRuns > 0 => abProbed
  /\ abResultsFile # << >> => abProbed
  /\ AllProbesFailed =>
       /\ abExit = <<1>> /\ abService = "stopped"
       /\ abWrkRuns = 0 /\ abResultsFile = << >>
  /\ (abPc = "exited" /\ RUNTIME \in AsyncRuntimes) => abService = "stopped"
  /\ abPc = "exited" <=> abExit # << >>

\* C27 as stated: wrk runs only after a probe of /async-bench succeeded; when
\* all 10 probes fail the service is stopped and the script exits 1 with no
\* wrk run and no results file; the service is stopped before the script
\* exits; and the exit code is non-zero exactly when the top-level "success"
\* of the results file is false
C27_ExitCodeIffSuccessFalse ==
  /\ AsyncProbesAndService
  /\ abPc = "exited" =>
       (abExit[1] # 0 <=> (abResultsFile # << >> /\ abResultsFile[1].success = "false"))

\* C27 amended: the same, but the exit code is tied to "success" only for a
\* run that wrote the results file: then it is non-zero exactly when
\* "success" is false, which is exactly when some iteration's wrk failed;
\* a run without results file has exit code 1
C27_ExitCodeIffSuccessFalseInFile ==
  /\ AsyncProbesAndService
  /\ (abPc = "exited" /\ abResultsFile # << >>) =>
       /\ abResultsFile[1].success \in {"true", "false"}
       /\ abExit[1] # 0 <=> abResultsFile[1].success = "false"
       /\ abResultsFile[1].success = "false" <=>
            \E e \in 1..Len(abResultsFile[1].iterations) :
              abResultsFile[1].iterations[e].success = "false"
       /\ Len(abResultsFile[1].iterations) = abIterations
  /\ (abPc = "exited" /\ abResultsFile = << >>) => abExit = <<1>>

\* a run whose first wrk failed and whose last wrk succeeded has written
\* "success": false and exited with the code of the failed wrk
C27_Witness ==
  /\ abPc = "exited" /\ abResultsFile # << >>
  /\ abProbe > 1 /\ abWrkRuns = MaxAsyncIter
  /\ abResultsFile[1].iterations[1].success = "false"
  /\ abResultsFile[1].iterations[abWrkRuns].success = "true"
  /\ abExit[1] # 0 /\ abService = "stopped"

\* ------------------------------------------------------------------------
\* The docker-compose test runner: options, the list of services, the runs
\* ------------------------------------------------------------------------
RUNTIMES == <<"node", "deno", "bun">>
ComputeTests == <<"fibonacci", "sorting", "matrix", "json">>
TESTS == ComputeTests \o <<"http">>

Range(seq) == {seq[k] : k \in DOMAIN seq}

\* "${rt}_${tst}"
Service(rt, tst) == <<rt, "_", tst>>

\* for rt in ...; do for tst in ...; do SERVICES+=("${rt}_${tst}"): the
\* pairs in the order of the two loops
Combinations(rts, tsts) ==
  [k \in 1..(Len(rts) * Len(tsts)) |->
     Service(rts[((k - 1) \div Len(tsts)) + 1], tsts[((k - 1) % Len(tsts)) + 1])]

\* an HTTP test that every runtime is taken to have
HttpAvailableEverywhere(rt) == TRUE

\* [ "$rt" != "node" ] / [ "$RUNTIME" != "node" ] / [ "$RUNTIME" = "node" ]
HttpAvailable(rt) == rt = "node"

Implemented(service) == service[3] = "http" => HttpAvailable(service[1])

\* the first two checks of the arguments passed
ValidArguments(runtime, test) ==
  /\ runtime = "" \/ runtime \in Range(RUNTIMES)
  /\ test = "" \/ test \in Range(TESTS)

\* the third check: a single test of a single runtime that does not exist
Unavailable(all, runtime, test) ==
  ~all /\ runtime # "" /\ test # "" /\ test = "http" /\ ~HttpAvailable(runtime)

\* SERVICES as the five branches fill it
ServicesFor(all, runtime, test) ==
  IF all THEN SelectSeq(Combinations(RUNTIMES, TESTS), Implemented)
  ELSE IF runtime # "" /\ test # "" THEN <<Service(runtime, test)>>
  ELSE IF runtime # ""
    THEN Combinations(<<runtime>>,
                      IF HttpAvailable(runtime) THEN ComputeTests \o <<"http">>
                      ELSE ComputeTests)
  ELSE IF test # ""
    THEN IF test = "http" THEN SelectSeq(Combinations(RUNTIMES, <<test>>), Implemented)
         ELSE Combinations(RUNTIMES, <<test>>)
  ELSE Combinations(RUNTIMES, ComputeTests) \o <<Service("node", "http")>>

InitRunner ==
  /\ RnOthersIdle
  /\ RUN_ALL \in BOOLEAN
  /\ rnRuntime \in Range(RUNTIMES) \cup {"", "python"}
  /\ rnTest \in Range(TESTS) \cup {"", "async"}
  /\ rnHelp \in BOOLEAN
  /\ RUN_ALL \/ rnRuntime # "" \/ rnTest # "" \/ rnHelp
  /\ rnPc = "args" /\ SERVICES = << >> /\ rnStarted = 0 /\ failed_tests = 0
  /\ rnExit = << >>

\* the options are read (-h ends the script with the help and status 0),
\* the arguments are checked and SERVICES is filled
FormServices ==
  /\ rnPc = "args"
  /\ IF rnHelp
       THEN rnExit' = <<0>> /\ rnPc' = "exited" /\ UNCHANGED SERVICES
       ELSE IF ~ValidArguments(rnRuntime, rnTest) \/ Unavailable(RUN_ALL, rnRuntime, rnTest)
         THEN rnExit' = <<1>> /\ rnPc' = "exited" /\ UNCHANGED SERVICES
         ELSE /\ SERVICES' = ServicesFor(RUN_ALL, rnRuntime, rnTest)
              /\ rnPc' = "run"
              /\ UNCHANGED rnExit
  /\ UNCHANGED <<RUN_ALL, rnRuntime, rnTest, rnHelp, rnStarted, failed_tests, rnFrame>>

\* one pass of the loop over SERVICES: run_single_test starts the service
\* with docker compose up and counts a failure
RunSingleTest ==
  /\ rnPc = "run"
  /\ rnStarted < Len(SERVICES)
  /\ rnStarted' = rnStarted + 1
  /\ \E exit_code \in {0, 1} :
       failed_tests' = IF exit_code = 0 THEN failed_tests ELSE failed_tests + 1
  /\ UNCHANGED <<rnPc, RUN_ALL, rnRuntime, rnTest, rnHelp, SERVICES, rnExit, rnFrame>>

\* behind the loop the summary is printed and the script ends
FinishRunner ==
  /\ rnPc = "run"
  /\ rnStarted = Len(SERVICES)
  /\ rnExit' = <<0>>
  /\ rnPc' = "exited"
  /\ UNCHANGED <<RUN_ALL, rnRuntime, rnTest, rnHelp, SERVICES, rnStarted, failed_tests,
                 rnFrame>>

NextRunner == FormServices \/ RunSingleTest \/ FinishRunner

SpecRunner == InitRunner /\ [][NextRunner]_vars

NoForeignHttp ==
  /\ Service("deno", "http") \notin Range(SERVICES)
  /\ Service("bun", "http") \notin Range(SERVICES)
  /\ rnStarted <= Len(SERVICES)

HttpOfDenoOrBun == rnTest = "http" /\ rnRuntime \in {"deno", "bun"} /\ ~rnHelp

\* C28 as stated: whatever the options --all, -r and -t, neither deno_http
\* nor bun_http is in the list of services; and a run asked for -t http with
\* -r deno or -r bun exits with status 1 with no service started
C28_HttpOnlyForNode ==
  /\ NoForeignHttp
  /\ HttpOfDenoOrBun =>
       /\ rnStarted = 0
       /\ rnPc = "exited" => rnExit = <<1>>
       /\ rnPc # "run"

\* C28 amended: the exit with status 1 is that of a run without --all; with
\* --all the options -r and -t are not looked at and all services implemented
\* are run, node_http among them
C28_HttpOnlyForNodeUnlessAll ==
  /\ NoForeignHttp
  /\ (HttpOfDenoOrBun /\ ~RUN_ALL) =>
       /\ rnStarted = 0
       /\ rnPc = "exited" => rnExit = <<1>>
       /\ rnPc # "run"
  /\ (HttpOfDenoOrBun /\ RUN_ALL /\ rnPc # "args") =>
       /\ Len(SERVICES) = Len(RUNTIMES) * Len(ComputeTests) + 1
       /\ Service("node", "http") \in Range(SERVICES)
       /\ rnPc = "exited" => rnExit = <<0>> /\ rnStarted = Len(SERVICES)
  /\ (rnPc = "run" /\ rnTest = "http" /\ ~RUN_ALL) => SERVICES = <<Service("node", "http")>>

\* -r bun -t http has ended with status 1 and an empty list of services
C28_Witness ==
  /\ rnPc = "exited" /\ rnExit = <<1>>
  /\ rnTest = "http" /\ rnRuntime = "bun" /\ ~RUN_ALL /\ ~rnHelp
  /\ SERVICES = << >> /\ rnStarted = 0

\* ------------------------------------------------------------------------
\* The async server: the handler of one request, runParallelTasks, the tasks
\* ------------------------------------------------------------------------
AsyncBench == <<"/", "async-bench">>

AsyncTargets ==
  {AsyncBench, AsyncBench \o <<"?", "x=1">>, <<"/", "ping">>, <<"/", "api">> \o AsyncBench}

\* if (i % 3 === 0) fileOperation() else if (i % 3 === 1)
\* mockExternalApiCall() else a promise resolved by a timer
TaskKind(i) == IF i % 3 = 0 THEN "file" ELSE IF i % 3 = 1 THEN "api" ELSE "delay"

\* the test of the handler: Node.js compares req.url, the request target;
\* Deno and Bun compare the pathname of the absolute URL
RoutesToBench(server, target) ==
  IF server = "node" THEN NodeReqUrl(target) = AsyncBench
  ELSE Pathname(FetchReqUrl(target)) = AsyncBench

\* the loop of runParallelTasks: task i is pushed at tasks[i + 1]
StartedTasks(n) == [k \in 1..n |-> [kind |-> TaskKind(k - 1), state |-> "pending"]]

AllFulfilled(ts) == \A k \in DOMAIN ts : ts[k].state = "fulfilled"
SomeRejected(ts) == \E k \in DOMAIN ts : ts[k].state = "rejected"

InitServer ==
  /\ AsOthersIdle
  /\ asServer \in Servers
  /\ asTarget \in AsyncTargets
  /\ PARALLEL_TASKS \in 0..MaxTasks
  /\ asPc = "request" /\ tasks = << >> /\ asResponse = << >>

\* the handler up to its await: the path is tested; runParallelTasks starts
\* every task and the handler waits for Promise.all - or 404 is sent
Receive ==
  /\ asPc = "request"
  /\ IF RoutesToBench(asServer, asTarget)
       THEN /\ tasks' = StartedTasks(PARALLEL_TASKS)
            /\ asPc' = "await"
            /\ UNCHANGED asResponse
       ELSE /\ asResponse' = <<[status |-> 404, body |-> "Not Found"]>>
            /\ asPc' = "responded"
            /\ UNCHANGED tasks
  /\ UNCHANGED <<asServer, asTarget, PARALLEL_TASKS, asFrame>>

\* a task settles: a timer fires, a file operation ends or fails
Settle ==
  /\ asPc \in {"await", "responded"}
  /\ \E k \in DOMAIN tasks :
       /\ tasks[k].state = "pending"
       /\ \E outcome \in (IF tasks[k].kind = "file" THEN {"fulfilled", "rejected"}
                          ELSE {"fulfilled"}) :
            tasks' = [tasks EXCEPT ![k].state = outcome]
  /\ UNCHANGED <<asPc, asServer, asTarget, PARALLEL_TASKS, asResponse, asFrame>>

\* the handler behind its await: Promise.all has fulfilled - 200 with
\* results.length - or has rejected with the first failure - 500
Respond ==
  /\ asPc = "await"
  /\ \/ /\ AllFulfilled(tasks)
        /\ asResponse' = <<[status |-> 200, success |-> TRUE, tasks_completed |-> Len(tasks)]>>
     \/ /\ SomeRejected(tasks)
        /\ asResponse' = <<[status |-> 500, success |-> FALSE]>>
  /\ asPc' = "responded"
  /\ UNCHANGED <<asServer, asTarget, PARALLEL_TASKS, tasks, asFrame>>

NextServer == Receive \/ Settle \/ Respond

SpecServer == InitServer /\ [][NextServer]_vars

\* the answer a request for the path /async-bench is to get
BenchAnswered ==
  /\ Len(tasks) = PARALLEL_TASKS
  /\ \A k \in DOMAIN tasks : tasks[k].kind = TaskKind(k - 1)
  /\ asResponse[1].status \in {200, 500}
  /\ asResponse[1].status = 200 =>
       /\ AllFulfilled(tasks)
       /\ asResponse[1].success /\ asResponse[1].tasks_completed = PARALLEL_TASKS
  /\ asResponse[1].status = 500 => SomeRejected(tasks) /\ ~asResponse[1].success

\* C29: a request for the path /async-bench has all PARALLEL_TASKS tasks
\* started, of the kinds i mod 3 decides, and is answered 200 with
\* tasks_completed = PARALLEL_TASKS only when all of them have completed, or
\* 500 with success false when one has failed; a request for any other path
\* is answered 404
C29_AsyncBench ==
  asPc = "responded" =>
    IF Pathname(FetchReqUrl(asTarget)) = AsyncBench THEN BenchAnswered
    ELSE asResponse[1].status = 404 /\ tasks = << >>

\* the same for the requests whose target is the path alone
AsyncBenchPlainTargets ==
  (asPc = "responded" /\ asTarget \in {AsyncBench, <<"/", "ping">>}) => C29_AsyncBench

\* ------------------------------------------------------------------------
\* The deoptimization wrappers: preventOptimization,
\* preventNumericOptimization, preventInlining of the three modules
\* ------------------------------------------------------------------------
\* A value of a wrapper's argument list: t is its typeof; a number is
\* n + u * 2^-53 (or NaN), a string is the decimal text of such a number or
\* some other text
JsNumber(n, u) == [t |-> "number", k |-> "finite", n |-> n, u |-> u]
JsNaN == [t |-> "number", k |-> "NaN", n |-> 0, u |-> 0]
JsDigits(n, u) == [t |-> "string", k |-> "digits", n |-> n, u |-> u]
JsText == [t |-> "string", k |-> "text", n |-> 0, u |-> 0]
JsBoolean(b) == [t |-> "boolean", k |-> IF b THEN "true" ELSE "false", n |-> 0, u |-> 0]

\* String(arg) of a number
StringOf(x) == IF x.k = "finite" THEN JsDigits(x.n, x.u) ELSE JsText

\* Number(arg) of a string
NumberOf(x) == IF x.k = "digits" THEN JsNumber(x.n, x.u) ELSE JsNaN

\* the largest power of two not above n, for n >= 1
RECURSIVE PowerBelow(_)
PowerBelow(n) == IF n < 2 THEN 1 ELSE 2 * PowerBelow(n \div 2)

\* the distance between neighbouring doubles around n + u * 2^-53, in units
\* of 2^-53 (u is small): twice the power of two below the value
Spacing(n, u) ==
  IF u < 0 /\ PowerBelow(n) = n THEN n ELSE 2 * PowerBelow(n)

\* u rounded to a multiple of s, to the nearest, a tie to the even multiple
RoundToSpacing(u, s) ==
  LET q == u \div s
      r == u % s
  IN IF 2 * r < s THEN s * q
     ELSE IF 2 * r > s THEN s * (q + 1)
     ELSE IF q % 2 = 0 THEN s * q ELSE s * (q + 1)

\* x + d * 2^-53 in double arithmetic
PlusUnits(x, d) ==
  IF x.k # "finite" THEN x
  ELSE IF x.n = 0 THEN JsNumber(0, x.u + d)
  ELSE JsNumber(x.n, RoundToSpacing(x.u + d, Spacing(x.n, x.u + d)))

\* arg + Number.EPSILON - Number.EPSILON, Number.EPSILON being 2^-52
Noise(x) == PlusUnits(PlusUnits(x, 2), -2)

\* the wrapped functions tried: x => x and x => typeof x === 'number'
WrappedFunctions == {"first", "isNumber"}

Apply(f, list) ==
  IF f = "first" THEN list[1] ELSE JsBoolean(list[1].t = "number")

ArgumentValues == {JsNumber(n, 0) : n \in 0..MaxArgValue} \cup {JsDigits(1, 0), JsText}

ArgumentLists ==
  UNION {[1..len -> ArgumentValues] : len \in 1..MaxArgs}

DeoptModules == {"deno/computational/utils/deoptimize.mjs", "node deoptimize.mjs",
                 "deno/utils/deoptimize.js"}

\* args.map(arg => typeof arg === 'number' ? String(arg) :
\*                 typeof arg === 'string' ? Number(arg) : arg)
SwapTypes(list) ==
  [j \in DOMAIN list |->
     IF list[j].t = "number" THEN StringOf(list[j])
     ELSE IF list[j].t = "string" THEN NumberOf(list[j])
     ELSE list[j]]

\* args.map(arg => typeof arg === 'number' ? arg + EPSILON - EPSILON : arg)
NoisyArgs(list) ==
  [j \in DOMAIN list |-> IF list[j].t = "number" THEN Noise(list[j]) ELSE list[j]]

InitDeopt ==
  /\ DzOthersIdle
  /\ dzModule \in DeoptModules
  /\ fn \in WrappedFunctions
  /\ args \in ArgumentLists
  /\ dzPc = "call" /\ fnCalls = << >> /\ dzResult = << >>

\* deoptimizedWrapper(...args): the first Math.random() decides whether the
\* types of the arguments are swapped; one of the five handlers calls fn
PreventOptimization ==
  /\ dzPc = "call"
  /\ \E swap \in BOOLEAN, callId \in 0..4 :
       LET passed == IF swap THEN SwapTypes(args) ELSE args
       IN /\ fnCalls' = Append(fnCalls, passed)
          /\ dzResult' = <<Apply(fn, passed)>>
  /\ dzPc' = "returned"
  /\ UNCHANGED <<dzModule, fn, args, dzFrame>>

\* the wrapper of preventNumericOptimization: in deno/computational the
\* numbers among the arguments and a numeric result get the noise; in the
\* other two modules fn is applied to the arguments with another this
PreventNumericOptimization ==
  /\ dzPc = "call"
  /\ IF dzModule = "deno/computational/utils/deoptimize.mjs"
       THEN LET result == Apply(fn, NoisyArgs(args))
            IN /\ fnCalls' = Append(fnCalls, NoisyArgs(args))
               /\ dzResult' = <<IF result.t = "number" THEN Noise(result) ELSE result>>
       ELSE /\ fnCalls' = Append(fnCalls, args)
            /\ dzResult' = <<Apply(fn, args)>>
  /\ dzPc' = "returned"
  /\ UNCHANGED <<dzModule, fn, args, dzFrame>>

\* the wrapper of preventInlining: fn.apply(this, arguments), directly or
\* through the function made by new Function
PreventInlining ==
  /\ dzPc = "call"
  /\ fnCalls' = Append(fnCalls, args)
  /\ dzResult' = <<Apply(fn, args)>>
  /\ dzPc' = "returned"
  /\ UNCHANGED <<dzModule, fn, args, dzFrame>>

NextDeopt == PreventOptimization \/ PreventNumericOptimization \/ PreventInlining

SpecDeopt == InitDeopt /\ [][NextDeopt]_vars

\* C30: a call of a wrapper has called the wrapped function exactly once,
\* with the caller's arguments, each the same in type and value, and has
\* returned what the function returns for them - whatever the random choices
C30_WrappersTransparent ==
  dzPc = "returned" =>
    /\ Len(fnCalls) = 1
    /\ fnCalls[1] = args
    /\ dzResult = <<Apply(fn, args)>>

\* the same for the wrappers other than preventOptimization, on arguments
\* that the noise of deno/computational leaves as they are
WrappersTransparentWithoutSwap ==
  (/\ dzPc = "returned"
   /\ fnCalls[1] # SwapTypes(args)
   /\ \A j \in DOMAIN args : Noise(args[j]) = args[j]) => C30_WrappersTransparent

====
